---- MODULE Spec2Model ----
(***************************************************************************)
(* A model of leemgs/ai-suit-tracker-v02: the case/document aggregation of *)
(* src/run.py and src/courtlistener.py, and the snapshot deduplication of  *)
(* src/dedup.py and of the copy of it inlined in run.main.                 *)
(*                                                                         *)
(* TEXT.  A Python str is modelled as a sequence of tokens.  The tokens    *)
(* that the code inspects one character at a time are single characters:   *)
(*   "|"  "\\"  " "  "\n"  "\r"  "["  "]"  "("  ")"                        *)
(* Every other token is an atom standing for a run of ordinary characters  *)
(* (none of the ones above), for instance "http" for the scheme prefix     *)
(* "http://" or "https://", "&hl=" for that marker, "## " for the heading  *)
(* marker at the start of a line, "u1" for the rest of an address, "1" for *)
(* str(1).  The Korean words of the source are written in English,         *)
(* because the module's strings are ASCII: the column headers "title",     *)
(* "docket_no", "article_date", "status" and "case_name", the placeholder  *)
(* "unknown", and "no news" for the sentence that reports zero new items.  *)
(***************************************************************************)
EXTENDS Integers, Sequences, FiniteSets, Bags, TLC

PIPE == "|"
BSL == "\\"
SP == " "
NL == "\n"
CR == "\r"
H2 == "## "
HTTP == "http"
HL == "&hl="

\* str.strip() removes these from both ends.
Whitespace == {SP, NL, CR}

Range(s) == {s[i] : i \in 1..Len(s)}

Max(a, b) == IF a >= b THEN a ELSE b

\* a[i:] of Python, 1-based: the elements from position i on.
From(s, i) == IF i > Len(s) THEN <<>> ELSE SubSeq(s, i, Len(s))

\* str.startswith
StartsWith(s, p) == Len(s) >= Len(p) /\ SubSeq(s, 1, Len(p)) = p

\* list.index(x): the first position holding x (0 when there is none; the
\* code calls index only after testing that x is in the list).
RECURSIVE IndexFrom(_, _, _)
IndexFrom(s, x, i) ==
  IF i > Len(s) THEN 0
  ELSE IF s[i] = x THEN i
  ELSE IndexFrom(s, x, i + 1)

Index(s, x) == IndexFrom(s, x, 1)

\* sep.join(parts[lo..hi]), by halves.
RECURSIVE JoinRange(_, _, _, _)
JoinRange(parts, sep, lo, hi) ==
  IF lo > hi THEN <<>>
  ELSE IF lo = hi THEN parts[lo]
  ELSE LET mid == (lo + hi) \div 2
       IN JoinRange(parts, sep, lo, mid) \o sep
          \o JoinRange(parts, sep, mid + 1, hi)

\* sep.join(parts)
Join(parts, sep) == JoinRange(parts, sep, 1, Len(parts))

Flatten(ss) == Join(ss, <<>>)

\* The least element of a non-empty set of numbers (0 for the empty set).
Least(S) == IF S = {} THEN 0 ELSE CHOOSE j \in S : \A k \in S : j <= k

Greatest(S) == IF S = {} THEN 0 ELSE CHOOSE j \in S : \A k \in S : j >= k

\* The positions of s that pass the test, ascending.
Indices(s) == [i \in 1..Len(s) |-> i]

\* The parts of s between the positions ps (ascending): Len(ps) + 1 parts.
PartsBetween(s, ps) ==
  [k \in 1..(Len(ps) + 1) |->
     SubSeq(s, IF k = 1 THEN 1 ELSE ps[k - 1] + 1,
               IF k = Len(ps) + 1 THEN Len(s) ELSE ps[k] - 1)]

RECURSIVE FirstNonWs(_, _)
FirstNonWs(s, i) ==
  IF i > Len(s) THEN i
  ELSE IF s[i] \in Whitespace THEN FirstNonWs(s, i + 1)
  ELSE i

RECURSIVE LastNonWs(_, _)
LastNonWs(s, i) ==
  IF i < 1 THEN 0
  ELSE IF s[i] \in Whitespace THEN LastNonWs(s, i - 1)
  ELSE i

\* str.strip()
strip(s) ==
  LET a == FirstNonWs(s, 1)
      b == LastNonWs(s, Len(s))
  IN IF a > b THEN <<>> ELSE SubSeq(s, a, b)

\* str.split(sep) for a one-token separator: always at least one part.
split(s, sep) == PartsBetween(s, SelectSeq(Indices(s), LAMBDA i : s[i] = sep))

\* The position of the first occurrence of old (not empty) in s at or after
\* i (0: none).
FindFrom(s, old, i) ==
  Least({j \in i..(Len(s) - Len(old) + 1) :
           s[j] = old[1] /\ SubSeq(s, j, j + Len(old) - 1) = old})

\* str.replace(old, new): every non-overlapping occurrence, left to right;
\* with old = "" Python puts new before every character and at the end.
RECURSIVE ReplaceFrom(_, _, _, _)
ReplaceFrom(s, old, new, i) ==
  LET p == FindFrom(s, old, i)
  IN IF p = 0 THEN From(s, i)
     ELSE SubSeq(s, i, p - 1) \o new \o ReplaceFrom(s, old, new, p + Len(old))

Intersperse(s, new) ==
  Flatten([i \in 1..Len(s) |-> new \o <<s[i]>>]) \o new

replace(s, old, new) ==
  IF old = <<>> THEN Intersperse(s, new) ELSE ReplaceFrom(s, old, new, 1)

\* str(n) for the small numbers of a report.
Str(n) == <<ToString(n)>>

(***************************************************************************)
(* src/dedup.py                                                            *)
(***************************************************************************)

\* The two section titles apply_deduplication passes to extract_section.
NewsTitle == <<H2, "News">>
CasesTitle == <<H2, "Cases">>

\* A section taken to be the whole text when its title is on no line.
section_or_text(md_text, section_title) ==
  LET lines == split(md_text, NL)
      titles == {i \in 1..Len(lines) : StartsWith(strip(lines[i]), section_title)}
      After(start) == Join(SubSeq(lines, start, Len(lines)), <<NL>>)
  IN IF titles = {} THEN md_text ELSE After(Greatest(titles) + 1)

\* extract_section.  Its loop sets start after every line that begins (once
\* stripped) with the title, and stops at the first other line, after a
\* title line, that begins with "## ": so the loop ends at the first such
\* line after the first title line, and start follows the last title line
\* before it.  Positions are 1-based; 0 stands for None.
extract_section(md_text, section_title) ==
  LET lines == split(md_text, NL)
      IsTitle(i) == StartsWith(strip(lines[i]), section_title)
      titles == {i \in 1..Len(lines) : IsTitle(i)}
      stop == Least({i \in 1..Len(lines) :
                       /\ ~IsTitle(i)
                       /\ StartsWith(lines[i], <<H2>>)
                       /\ i > Least(titles)})
      end == IF stop = 0 THEN Len(lines) + 1 ELSE stop
      start == Greatest({i \in titles : i < end}) + 1
  IN IF titles = {} THEN <<>>
     ELSE Join(SubSeq(lines, start, end - 1), <<NL>>)

\* re.split(r'(?<!\\)\|', text): the parts between the pipes that no
\* backslash precedes.
SplitUnescaped(s) ==
  PartsBetween(s, SelectSeq(Indices(s),
                            LAMBDA i : s[i] = PIPE /\ (i = 1 \/ s[i - 1] # BSL)))

\* re.split on every pipe: split_row without its lookbehind.
split_row_every_pipe(row_text) ==
  LET parts == split(strip(row_text), PIPE)
  IN [k \in 1..Max(Len(parts) - 2, 0) |-> strip(parts[k + 1])]

split_row(row_text) ==
  LET parts == SplitUnescaped(strip(row_text))
  IN [k \in 1..Max(Len(parts) - 2, 0) |-> strip(parts[k + 1])]

IsTableLine(l) == StartsWith(strip(l), <<PIPE>>)

\* parse_table returns (header_cols, parsed_rows, (header, separator)).
parse_table(section_md) ==
  LET Parsed(lines, header_cols) ==
        LET SameWidth(row) == Len(split_row(row)) = Len(header_cols)
            Cells(rows) == [k \in 1..Len(rows) |-> split_row(rows[k])]
        IN [headers |-> header_cols,
            rows |-> Cells(SelectSeq(From(lines, 3), SameWidth)),
            header |-> lines[1],
            separator |-> lines[2]]
      Table(lines) ==
        IF Len(lines) < 3
        THEN [headers |-> <<>>, rows |-> <<>>, header |-> <<>>, separator |-> <<>>]
        ELSE Parsed(lines, split_row(lines[1]))
  IN Table(SelectSeq(split(section_md, NL), IsTableLine))

\* extract_article_url returns None when the cell holds no link.
None == <<"None">>

\* The first position at or after i that holds x (0: none).
FirstToken(s, x, i) == Least({j \in i..Len(s) : s[j] = x})

\* re.search(r"\((https?://[^\)]+)\)", cell): the first "(" that the scheme,
\* at least one character other than ")" and then a ")" follow.
SearchLink(cell) ==
  LET start == Least({i \in 1..(Len(cell) - 3) :
                        /\ cell[i] = "("
                        /\ cell[i + 1] = HTTP
                        /\ FirstToken(cell, ")", i + 2) >= i + 3})
  IN IF start = 0 THEN <<>>
     ELSE SubSeq(cell, start + 1, FirstToken(cell, ")", start + 2) - 1)

extract_article_url(cell) ==
  LET m == SearchLink(cell)
  IN IF m = <<>> THEN None
     ELSE LET p == FirstToken(m, HL, 1)
          IN IF p = 0 THEN m ELSE SubSeq(m, 1, p - 1)
\* The column names the code looks up in a header.
COL_NO == <<"No.">>
COL_TITLE == <<"title">>
COL_DATE == <<"article_date">>
COL_DOCKET == <<"docket_no">>
COL_STATUS == <<"status">>
COL_CASE == <<"case_name">>

\* "새로운 소식이 0건입니다.\n"
NoNews == <<"no news", NL>>

\* "| " + " | ".join(r) + " |"
RowLine(r) == <<PIPE, SP>> \o Join(r, <<SP, PIPE, SP>>) \o <<SP, PIPE>>

\* The rows with the numbers they had.
NumbersKept(final_rows, no_idx) == final_rows

\* for row_idx, r in enumerate(final_rows, start=1):
\*     if no_idx is not None: r[no_idx] = str(row_idx)
Renumbered(final_rows, no_idx) ==
  [k \in 1..Len(final_rows) |->
     IF no_idx = 0 THEN final_rows[k]
     ELSE [final_rows[k] EXCEPT ![no_idx] = Str(k)]]

\* A table that loses its rows: the header and the separator only.
TableTextNoRows(header_line, separator_line, final_rows, no_idx) ==
  Join(<<header_line, separator_line>>, <<NL>>)

\* "\n".join([header_line, separator_line] + the renumbered rows' lines)
TableText(header_line, separator_line, final_rows, no_idx) ==
  LET rs == Renumbered(final_rows, no_idx)
  IN Join(<<header_line, separator_line>>
            \o [k \in 1..Len(rs) |-> RowLine(rs[k])], <<NL>>)

\* The article keys one comment body adds to base_article_set.
ArticleKeysOf(body) ==
  LET Keys(r_news, idx) ==
        IF idx = 0 THEN {}
        ELSE {extract_article_url(r_news[k][idx]) : k \in 1..Len(r_news)} \ {None}
      Table(t) == Keys(t.rows, Index(t.headers, COL_TITLE))
  IN Table(parse_table(extract_section(body, NewsTitle)))

\* The docket keys one comment body adds to base_docket_set.
DocketKeysOf(body) ==
  LET Keys(r_cases, idx) ==
        IF idx = 0 THEN {} ELSE {r_cases[k][idx] : k \in 1..Len(r_cases)}
      Table(t) == Keys(t.rows, Index(t.headers, COL_DOCKET))
  IN Table(parse_table(extract_section(body, CasesTitle)))

\* The baseline built from the latest comment alone.
base_article_set_latest(comments) ==
  IF comments = <<>> THEN {} ELSE ArticleKeysOf(comments[Len(comments)])

base_article_set(comments) ==
  UNION {ArticleKeysOf(comments[i]) : i \in 1..Len(comments)}

\* The baseline built from the latest comment alone.
base_docket_set_latest(comments) ==
  IF comments = <<>> THEN {} ELSE DocketKeysOf(comments[Len(comments)])

base_docket_set(comments) ==
  UNION {DocketKeysOf(comments[i]) : i \in 1..Len(comments)}

\* Step 2 of apply_deduplication: the News table of the current report.
\* keys are the identities of the rows counted as new, in row order.
dedup_news(current_md, base) ==
  LET Replaced(news_section, t, title_idx, non_skip_rows, new_news_section) ==
        [md |-> replace(current_md, news_section, new_news_section),
         total |-> Len(t.rows),
         new |-> Len(non_skip_rows),
         keys |-> [k \in 1..Len(non_skip_rows) |->
                     extract_article_url(non_skip_rows[k][title_idx])],
         section |-> new_news_section,
         rewritten |-> TRUE]
      Counted(news_section, t, title_idx, no_idx, non_skip_rows) ==
        Replaced(news_section, t, title_idx, non_skip_rows,
                 IF Len(non_skip_rows) = 0 THEN NoNews
                 ELSE TableText(t.header, t.separator, non_skip_rows, no_idx))
      Located(news_section, t, title_idx, no_idx) ==
        LET IsNew(r) == extract_article_url(r[title_idx]) \notin base
        IN IF title_idx # 0
           THEN Counted(news_section, t, title_idx, no_idx,
                        SelectSeq(t.rows, IsNew))
           ELSE [md |-> current_md, total |-> Len(t.rows), new |-> 0,
                 keys |-> <<>>, section |-> news_section, rewritten |-> FALSE]
      Parsed(news_section, t) ==
        Located(news_section, t, Index(t.headers, COL_TITLE),
                Index(t.headers, COL_NO))
      Section(news_section) == Parsed(news_section, parse_table(news_section))
  IN Section(extract_section(current_md, NewsTitle))

\* Step 3 of apply_deduplication: the Cases table.  The duplicate branch
\* formats r[case_idx] for its log line, which raises TypeError when the
\* header has no case_name column (case_idx is None).
dedup_cases(current_md, base) ==
  LET Replaced(recap_section, t, docket_idx, case_idx, non_skip_rows, new_recap_section) ==
        [md |-> replace(current_md, recap_section, new_recap_section),
         total |-> Len(t.rows),
         new |-> Len(non_skip_rows),
         keys |-> [k \in 1..Len(non_skip_rows) |->
                     non_skip_rows[k][docket_idx]],
         section |-> new_recap_section,
         rewritten |-> TRUE,
         raised |-> case_idx = 0 /\ Len(non_skip_rows) < Len(t.rows)]
      Counted(recap_section, t, docket_idx, no_idx, case_idx, non_skip_rows) ==
        Replaced(recap_section, t, docket_idx, case_idx, non_skip_rows,
                 IF Len(non_skip_rows) = 0 THEN NoNews
                 ELSE TableText(t.header, t.separator, non_skip_rows, no_idx))
      Located(recap_section, t, docket_idx, no_idx, case_idx) ==
        LET IsNew(r) == r[docket_idx] \notin base
        IN IF docket_idx # 0
           THEN Counted(recap_section, t, docket_idx, no_idx, case_idx,
                        SelectSeq(t.rows, IsNew))
           ELSE [md |-> current_md, total |-> Len(t.rows), new |-> 0,
                 keys |-> <<>>, section |-> recap_section,
                 rewritten |-> FALSE, raised |-> FALSE]
      Parsed(recap_section, t) ==
        Located(recap_section, t, Index(t.headers, COL_DOCKET),
                Index(t.headers, COL_NO), Index(t.headers, COL_CASE))
      Section(recap_section) == Parsed(recap_section, parse_table(recap_section))
  IN Section(extract_section(current_md, CasesTitle))

\* Step 4: the summary block.
summary_header(base_news, dup_news, new_article_count, base_cases, dup_cases, new_docket_count) ==
  <<"### dedup summary:", NL, "Dedup Summary", NL>>
  \o <<"L News ">> \o Str(base_news) \o <<" (Baseline): ">>
  \o Str(dup_news) \o <<" (Dup), ">> \o Str(new_article_count)
  \o <<" (New)", NL>>
  \o <<"L Cases ">> \o Str(base_cases) \o <<" (Baseline): ">>
  \o Str(dup_cases) \o <<" (Dup), ">> \o Str(new_docket_count)
  \o <<" (New)", NL, NL>>

\* What apply_deduplication raises.
TypeError == <<"TypeError">>

\* The locals of apply_deduplication(md, comments) when it returns, for a
\* non-empty list of comments (a comment is modelled by its body).
dedup_locals(md, comments) ==
  LET Locals(bn, bc, n, c) ==
        [raised |-> c.raised,
         base_article_set |-> bn,
         base_docket_set |-> bc,
         total_article_count |-> n.total,
         new_article_count |-> n.new,
         total_docket_count |-> c.total,
         new_docket_count |-> c.new,
         news_keys |-> n.keys,
         case_keys |-> c.keys,
         out |-> summary_header(Cardinality(bn), n.total - n.new, n.new,
                                Cardinality(bc), c.total - c.new, c.new)
                 \o c.md]
      AfterNews(bn, bc, n) == Locals(bn, bc, n, dedup_cases(n.md, bc))
      AfterBase(bn, bc) == AfterNews(bn, bc, dedup_news(md, bn))
  IN AfterBase(base_article_set(comments), base_docket_set(comments))

\* The summary and the rewritten report, whatever the comments.
ReturnedRewritten(md, comments, v) ==
  IF v.raised THEN TypeError ELSE v.out

\* What apply_deduplication returns when its locals end as v: md itself
\* for a ticket without comments (line 60).
Returned(md, comments, v) ==
  IF comments = <<>> THEN md
  ELSE IF v.raised THEN TypeError ELSE v.out

apply_deduplication(md, comments) ==
  Returned(md, comments, dedup_locals(md, comments))

(***************************************************************************)
(* src/render.py.  A date string is modelled by its day number (0: the     *)
(* empty string, or "unknown" where the field holds that); ISO dates order *)
(* as strings the way their day numbers order.                             *)
(***************************************************************************)

\* A text's len(): one per token, except the atom that stands for a text too
\* long for a table cell.
LONG == "long text"

CharLen(s) == Len(s) + 249 * Cardinality({i \in 1..Len(s) : s[i] = LONG})

\* The replacements of _esc: "\r\n" and "\r" become "\n", the code fences
\* (the atoms "<fence>" and "<tildes>") become entities, "|" becomes "\|" and
\* "\n" becomes "<br>".
EscToken(s, i) ==
  IF s[i] = NL /\ i > 1 /\ s[i - 1] = CR THEN <<>>
  ELSE IF s[i] \in {CR, NL} THEN <<"<br>">>
  ELSE IF s[i] = "<fence>" THEN <<"&#96;&#96;&#96;">>
  ELSE IF s[i] = "<tildes>" THEN <<"&#126;&#126;&#126;">>
  ELSE IF s[i] = PIPE THEN <<BSL, PIPE>>
  ELSE <<s[i]>>

_esc(s) == LET t == strip(s) IN Flatten([i \in 1..Len(t) |-> EscToken(t, i)])

\* "|" + "---|" * col_count
_md_sep(col_count) == <<PIPE>> \o Flatten([k \in 1..col_count |-> <<"---", PIPE>>])

_mdlink(label, url) ==
  LET l == _esc(label)
      u == strip(url)
  IN IF u = <<>> THEN l
     ELSE IF StartsWith(u, <<"[">>) /\ FindFrom(u, <<"]", "(">>, 1) # 0 THEN u
     ELSE <<"[">> \o l \o <<"]", "(">> \o u \o <<")">>

_short(val, limit) ==
  IF CharLen(val) <= limit THEN _esc(val)
  ELSE <<"<details><summary>more</summary>">> \o _esc(val) \o <<"</details>">>

\* utils.slugify_case_name is not among the source files: the slug is the
\* name without its blanks and punctuation tokens.
IsSlugToken(t) == t \notin (Whitespace \cup {PIPE, BSL, "[", "]", "(", ")"})
_slugify_case_name(name) == SelectSeq(name, IsSlugToken)

\* str.lower() on the capitalised atoms of the model's texts.
LowerToken(t) ==
  CASE t = "Second" -> "second"
    [] t = "SECOND" -> "second"
    [] t = "Third" -> "third"
    [] t = "THIRD" -> "third"
    [] t = "AMENDED" -> "amended"
    [] t = "Order" -> "order"
    [] t = "Amended" -> "amended"
    [] t = "Class" -> "class"
    [] t = "Action" -> "action"
    [] t = "Petition" -> "petition"
    [] t = "Complaint" -> "complaint"
    [] t = "Scrape" -> "scrape"
    [] t = "Copyright" -> "copyright"
    [] t = "Training" -> "training"
    [] OTHER -> t

lower(s) == [i \in 1..Len(s) |-> LowerToken(s[i])]

\* (k in text) for a keyword written as the tokens k.
Contains(text, k) == FindFrom(text, k, 1) # 0

AnyIn(text, keywords) == \E k \in keywords : Contains(text, k)

\* The keyword lists of the five rules; a keyword of several words is the
\* words with the blanks between them.
KwCollect == {<<"scrape">>, <<"crawl">>, <<"ingest">>, <<"harvest">>,
              <<"mining">>, <<"extraction">>, <<"bulk">>, <<"collection">>,
              <<"robots.txt">>, <<"common", SP, "crawl">>, <<"laion">>,
              <<"the", SP, "pile">>, <<"bookcorpus">>, <<"unauthorized">>}
KwTrain == {<<"train">>, <<"training">>, <<"model">>, <<"llm">>,
            <<"generative", SP, "ai">>, <<"genai">>, <<"gpt">>,
            <<"transformer">>, <<"weight">>, <<"fine-tune">>, <<"diffusion">>,
            <<"inference">>}
KwCommercial == {<<"commercial">>, <<"profit">>, <<"monetiz">>, <<"revenue">>,
                 <<"subscription">>, <<"enterprise">>, <<"paid">>,
                 <<"for-profit">>}
KwCopyright == {<<"copyright">>, <<"infringement">>, <<"dmca">>,
                <<"fair", SP, "use">>, <<"derivative">>, <<"exclusive">>}
KwClass == {<<"class", SP, "action">>, <<"putative", SP, "class">>,
            <<"representative">>}

Min(a, b) == IF a <= b THEN a ELSE b

\* A score that counts every keyword found, not every rule.
score_per_keyword(title, reason) ==
  LET Found(text, keywords) ==
        Cardinality({k \in keywords : Contains(text, k)})
      Score(text) ==
        Min(30 * Found(text, KwCollect) + 30 * Found(text, KwTrain)
            + 15 * Found(text, KwCommercial)
            + 15 * Found(text, KwCopyright \cup {<<"820">>})
            + 10 * Found(text, KwClass), 100)
  IN Score(lower(title \o <<SP>> \o reason))

calculate_news_risk_score(title, reason) ==
  LET text == lower(title \o <<SP>> \o reason)
  IN Min((IF AnyIn(text, KwCollect) THEN 30 ELSE 0)
         + (IF AnyIn(text, KwTrain) THEN 30 ELSE 0)
         + (IF AnyIn(text, KwCommercial) THEN 15 ELSE 0)
         + (IF AnyIn(text, KwCopyright \cup {<<"820">>}) THEN 15 ELSE 0)
         + (IF AnyIn(text, KwClass) THEN 10 ELSE 0), 100)

format_risk(score) ==
  IF score >= 80 THEN <<"FIRE ">> \o Str(score)
  ELSE IF score >= 60 THEN <<"WARN ">> \o Str(score)
  ELSE IF score >= 40 THEN <<"YELLOW ">> \o Str(score)
  ELSE <<"GREEN ">> \o Str(score)

calculate_case_risk_score(extracted_ai_snippet, extracted_causes, nature_of_suit) ==
  LET text == lower(extracted_ai_snippet \o <<SP>> \o extracted_causes)
  IN Min((IF AnyIn(text, KwCollect) THEN 30 ELSE 0)
         + (IF AnyIn(text, KwTrain) THEN 30 ELSE 0)
         + (IF AnyIn(text, KwCommercial) THEN 15 ELSE 0)
         + (IF (nature_of_suit # <<>> /\ Contains(nature_of_suit, <<"820">>))
               \/ AnyIn(text, KwCopyright) THEN 15 ELSE 0)
         + (IF AnyIn(text, KwClass) THEN 10 ELSE 0), 100)

\* sorted(..., key=..., reverse=True) over items [k1, k2, v] with the key
\* (k1, k2): descending, equal keys in their original order.
KeyGreater(a, b) == a.k1 > b.k1 \/ (a.k1 = b.k1 /\ a.k2 > b.k2)

RECURSIVE InsertDesc(_, _)
InsertDesc(r, x) ==
  IF r = <<>> THEN <<x>>
  ELSE IF KeyGreater(x, Head(r)) THEN <<x>> \o r
  ELSE <<Head(r)>> \o InsertDesc(Tail(r), x)

RECURSIVE SortedDescFrom(_, _, _)
SortedDescFrom(s, i, acc) ==
  IF i > Len(s) THEN acc ELSE SortedDescFrom(s, i + 1, InsertDesc(acc, s[i]))

sorted_reverse(s) == SortedDescFrom(s, 1, <<>>)

\* A date string: "" for day 0, else an ISO date.
DateText(d) == IF d = 0 THEN <<>> ELSE <<"2025-01-", ToString(d)>>

\* A field that holds a date or "unknown".
DateOrUnknown(d) == IF d = 0 THEN <<"unknown">> ELSE DateText(d)
\* The first occurrences of the values of s, in order (the keys of a dict
\* or Counter filled from s).
RECURSIVE FirstSeen(_, _, _)
FirstSeen(s, i, acc) ==
  IF i > Len(s) THEN acc
  ELSE IF s[i] \in Range(acc) THEN FirstSeen(s, i + 1, acc)
  ELSE FirstSeen(s, i + 1, Append(acc, s[i]))

Take(s, n) == SubSeq(s, 1, Min(n, Len(s)))

Values(items) == [k \in 1..Len(items) |-> items[k].v]

OrElse(a, b) == IF a # <<>> THEN a ELSE b

\* The heading lines of the two sections, as render_markdown writes them.
NewsHeading == <<H2, "News">>
CasesHeading == <<H2, "Cases", SP, "(", "Courtlistener+RECAP", ")">>

NewsHeaderLine ==
  RowLine(<<COL_NO, COL_DATE, COL_TITLE, <<"case_no">>, <<"reason">>,
            <<"risk score">>>>)

CasesHeaderLine ==
  RowLine(<<COL_NO, COL_STATUS, COL_CASE, COL_DOCKET, <<"Nature">>,
            <<"risk">>, <<"reason">>, <<"ai claim">>, <<"legal basis">>,
            <<"judge">>, <<"court">>, <<"Complaint doc no">>,
            <<"Complaint PDF link">>, <<"recent docket update">>>>)

DocsHeaderLine ==
  RowLine(<<COL_NO, <<"filed">>, <<"case">>, <<"doc type">>, <<"court doc">>>>)

Title(s) == OrElse(s.article_title, s.case_title)

\* The "Nature of Suit" statistics block.
NatureBlock(cl_cases) ==
  LET natures == [k \in 1..Len(cl_cases) |->
                    OrElse(cl_cases[k].nature_of_suit, <<"unknown">>)]
      keys == FirstSeen(natures, 1, <<>>)
      Count(n) == Cardinality({k \in 1..Len(natures) : natures[k] = n})
      most_common == Take(sorted_reverse(
                        [k \in 1..Len(keys) |->
                           [k1 |-> Count(keys[k]), k2 |-> 0, v |-> keys[k]]]), 10)
  IN << <<H2, "Nature of Suit stats">>, <<>>,
        RowLine(<< <<"Nature of Suit">>, <<"count">> >>),
        _md_sep(2) >>
     \o [k \in 1..Len(most_common) |->
           RowLine(<< _esc(most_common[k].v),
                      <<"**">> \o Str(most_common[k].k1) \o <<"**">> >>)]
     \o << RowLine(<< <<"**total**">>,
                      <<"**">> \o Str(Len(cl_cases)) \o <<"**">> >>),
           <<>> >>

NatureDisplay(nature_of_suit) ==
  IF strip(nature_of_suit) = <<"820", SP, "Copyright">>
  THEN <<"WARN**820 Copyright**">>
  ELSE _esc(nature_of_suit)

\* The "Top 3" block.
TopBlock(cl_cases) ==
  LET top_cases == Values(Take(sorted_reverse(
                     [k \in 1..Len(cl_cases) |->
                        [k1 |-> cl_cases[k].recent_updates, k2 |-> 0,
                         v |-> cl_cases[k]]]), 3))
      Entry(idx) ==
        LET c == top_cases[idx]
        IN << <<"**", "(">> \o Str(idx) \o <<")", SP>>
                \o _esc(DateOrUnknown(c.recent_updates)) \o <<",", SP>>
                \o _esc(c.case_name) \o <<"**">>,
              <<SP, SP, SP, "- **Nature**: ">> \o NatureDisplay(c.nature_of_suit),
              <<SP, SP, SP, "- **reason**: ">>
                \o _esc(OrElse(c.extracted_causes, OrElse(c.cause, <<"unknown">>))),
              <<SP, SP, SP, "- **ai claim**: ">>
                \o (IF c.extracted_ai_snippet # <<>>
                    THEN _short(c.extracted_ai_snippet, 200)
                    ELSE <<"unknown">>),
              <<>> >>
  IN << <<H2, "Top 3 recent suits">>, <<>> >>
     \o Flatten([idx \in 1..Len(top_cases) |-> Entry(idx)])

\* The News table: the lawsuits by (date, risk score), descending.
NewsBlock(lawsuits) ==
  LET scored == sorted_reverse(
                  [k \in 1..Len(lawsuits) |->
                     [k1 |-> lawsuits[k].update_or_filed_date,
                      k2 |-> calculate_news_risk_score(Title(lawsuits[k]),
                                                       lawsuits[k].reason),
                      v |-> lawsuits[k]]])
      Row(idx) ==
        LET s == scored[idx].v
            article_url == IF s.article_urls # <<>> THEN s.article_urls[1]
                           ELSE <<>>
        IN RowLine(<< Str(idx),
                      _esc(DateText(s.update_or_filed_date)),
                      _mdlink(Title(s), article_url),
                      _esc(s.case_number),
                      _short(s.reason, 140),
                      format_risk(scored[idx].k2) >>)
  IN IF lawsuits # <<>>
     THEN <<NewsHeading, NewsHeaderLine, _md_sep(6)>>
          \o [idx \in 1..Len(scored) |-> Row(idx)] \o << <<>> >>
     ELSE <<NewsHeading, <<"no news">>, <<>>>>

\* doc_map[d.docket_id] = d for every document with a docket id: the last
\* document of a docket (0: the docket has none).
DocOf(cl_docs, docket_id) ==
  LET hits == {k \in 1..Len(cl_docs) : cl_docs[k].docket_id = docket_id}
  IN IF docket_id = 0 \/ hits = {} THEN 0
     ELSE CHOOSE k \in hits : \A j \in hits : j <= k

\* docket_url = f"https://www.courtlistener.com/docket/{c.docket_id}/{slug}/"
DocketUrl(c) ==
  <<HTTP, "www.courtlistener.com/docket/">> \o Str(c.docket_id) \o <<"/">>
    \o _slugify_case_name(c.case_name) \o <<"/">>

\* The Cases table: the cases by (risk score, recent update), descending.
CasesBlock(cl_docs, cl_cases) ==
  LET Causes(c) == IF DocOf(cl_docs, c.docket_id) = 0 THEN c.extracted_causes
                   ELSE OrElse(cl_docs[DocOf(cl_docs, c.docket_id)].extracted_causes,
                               c.extracted_causes)
      Snippet(c) == IF DocOf(cl_docs, c.docket_id) = 0 THEN c.extracted_ai_snippet
                    ELSE OrElse(cl_docs[DocOf(cl_docs, c.docket_id)].extracted_ai_snippet,
                                c.extracted_ai_snippet)
      scored_cases == sorted_reverse(
                        [k \in 1..Len(cl_cases) |->
                           [k1 |-> calculate_case_risk_score(
                                     Snippet(cl_cases[k]), Causes(cl_cases[k]),
                                     cl_cases[k].nature_of_suit),
                            k2 |-> cl_cases[k].recent_updates,
                            v |-> cl_cases[k]]])
      Row(idx) ==
        LET c == scored_cases[idx].v
            docket_url == DocketUrl(c)
            di == DocOf(cl_docs, c.docket_id)
            complaint_doc_no == IF di = 0 THEN c.complaint_doc_no
                                ELSE OrElse(cl_docs[di].doc_number, cl_docs[di].doc_type)
            complaint_link == IF di = 0 THEN c.complaint_link
                              ELSE OrElse(cl_docs[di].document_url, cl_docs[di].pdf_url)
            court_display == IF c.court_short_name # <<>> /\ c.court_api_url # <<>>
                             THEN _mdlink(c.court_short_name, c.court_api_url)
                             ELSE _esc(c.court)
        IN RowLine(<< Str(idx),
                      _esc(c.status),
                      _mdlink(c.case_name, docket_url),
                      _mdlink(c.docket_number, docket_url),
                      NatureDisplay(c.nature_of_suit),
                      format_risk(scored_cases[idx].k1),
                      _short(Causes(c), 120),
                      _short(Snippet(c), 120),
                      _esc(c.cause),
                      _esc(c.judge),
                      court_display,
                      _esc(complaint_doc_no),
                      IF complaint_link # <<>>
                        THEN _mdlink(<<"PDF">>, complaint_link) ELSE <<"-">>,
                      _esc(DateOrUnknown(c.recent_updates)) >>)
  IN IF cl_cases # <<>>
     THEN <<CasesHeading, CasesHeaderLine, _md_sep(14)>>
          \o [idx \in 1..Len(scored_cases) |-> Row(idx)] \o << <<>> >>
     ELSE <<CasesHeading, <<"no news">>, <<>>>>

\* The court-documents block: the documents by filing date, descending.
DocsBlock(cl_docs) ==
  LET sorted_docs == Values(sorted_reverse(
                       [k \in 1..Len(cl_docs) |->
                          [k1 |-> cl_docs[k].date_filed, k2 |-> 0,
                           v |-> cl_docs[k]]]))
      Row(idx) ==
        LET d == sorted_docs[idx]
        IN RowLine(<< Str(idx), _esc(DateText(d.date_filed)), _esc(d.case_name),
                      _esc(d.doc_type),
                      _mdlink(<<"PDF">>, OrElse(d.document_url, d.pdf_url)) >>)
  IN IF cl_docs = <<>> THEN <<>>
     ELSE << <<"<details>">>, <<"<summary>Cases: court documents</summary>">>,
             <<>>, DocsHeaderLine, _md_sep(5) >>
          \o [idx \in 1..Len(sorted_docs) |-> Row(idx)]
          \o << <<"</details>">>, <<>> >>

\* The news-website block.
WebsiteBlock(lawsuits) ==
  LET Entry(s) == << <<"### ">> \o _esc(Title(s)) >>
                  \o [k \in 1..Len(s.article_urls) |-> <<"- ">> \o s.article_urls[k]]
  IN IF lawsuits = <<>> THEN <<>>
     ELSE << <<"<details>">>, <<"<summary>News Website</summary>">>, <<>> >>
          \o Flatten([k \in 1..Len(lawsuits) |-> Entry(lawsuits[k])])
          \o << <<"</details>">>, <<>> >>

\* The risk-scale block: fixed text with a three-column table.
RiskScaleBlock ==
  << <<"<details>">>, <<"<summary>risk score scale</summary>">>, <<>>,
     <<"- the score measures">>, <<"- near 0">>, <<"- near 100">>, <<>>, <<>>,
     <<"### grades">>, <<"-  0~ 39 GREEN">>, <<"- 40~ 59 YELLOW">>,
     <<"- 60~ 79 WARN">>, <<"- 80~100 FIRE">>, <<>>,
     <<"### scoring">>,
     RowLine(<< <<"item">>, <<"condition">>, <<"score">> >>),
     _md_sep(3),
     RowLine(<< <<"collection">>, <<"scrape, crawl">>, <<"+30">> >>),
     RowLine(<< <<"training">>, <<"train, model">>, <<"+30">> >>),
     RowLine(<< <<"commercial">>, <<"commercial, profit">>, <<"+15">> >>),
     RowLine(<< <<"copyright">>, <<"Nature=820, copyright">>, <<"+15">> >>),
     RowLine(<< <<"class action">>, <<"class action">>, <<"+10">> >>),
     <<>>, <<"</details>">>, <<>> >>

render_markdown(lawsuits, cl_docs, cl_cases, recap_doc_count, lookback_days) ==
  Join(<< <<H2, "summary of the last ">> \o Str(lookback_days) \o <<" days">>,
          <<"L News: ">> \o Str(Len(lawsuits)),
          <<"L Cases: ">> \o Str(Len(cl_cases)) \o <<SP, "(", "Docs: ">>
            \o Str(recap_doc_count) \o <<")">>,
          <<>> >>
       \o (IF cl_cases # <<>> THEN NatureBlock(cl_cases) \o TopBlock(cl_cases)
           ELSE <<>>)
       \o NewsBlock(lawsuits)
       \o CasesBlock(cl_docs, cl_cases)
       \o DocsBlock(cl_docs)
       \o WebsiteBlock(lawsuits)
       \o RiskScaleBlock, <<NL>>)
(***************************************************************************)
(* The data a run can collect: lawsuits as extract.build_lawsuits_from_news *)
(* builds them (every one with the fetched address of its article), case   *)
(* summaries and documents as src/courtlistener.py builds them.            *)
(***************************************************************************)

Lawsuit(date, case_title, article_title, case_number, reason, urls) ==
  [update_or_filed_date |-> date, case_title |-> case_title,
   article_title |-> article_title, case_number |-> case_number,
   reason |-> reason, article_urls |-> urls]

\* L3 has another title than L1 and an address that differs from L1's only
\* after the "&hl=" marker; L2's title holds a pipe.
L1 == Lawsuit(2, <<"A v. B">>, <<"Authors sue">>, <<"3:24-cv-01234">>,
              <<"training", SP, "data">>, << <<HTTP, "u1">> >>)
L2 == Lawsuit(1, <<"unknown">>, <<"Scrape", PIPE, "suit">>, <<"unknown">>,
              <<"copyright">>, << <<HTTP, "u2">>, <<HTTP, "u2b">> >>)
L3 == Lawsuit(3, <<"A v. B">>, <<"Authors sue again">>, <<"3:24-cv-01234">>,
              <<"class action">>, << <<HTTP, "u1", HL, "en">> >>)

CaseSummary(docket_id, case_name, docket_number, nature, recent, causes, link) ==
  [docket_id |-> docket_id, case_name |-> case_name,
   docket_number |-> docket_number, court |-> <<"cand">>,
   court_short_name |-> <<"N.D. Cal.">>,
   court_api_url |-> <<HTTP, "courts/cand/">>,
   status |-> <<"pending">>, judge |-> <<"unknown">>,
   nature_of_suit |-> nature, cause |-> <<"17:501">>,
   complaint_doc_no |-> <<"1">>, complaint_link |-> link,
   recent_updates |-> recent, extracted_causes |-> causes,
   extracted_ai_snippet |-> <<>>]

K1 == CaseSummary(555, <<"A", SP, "v.", SP, "B">>, <<"3:24-cv-01234">>,
                  <<"820", SP, "Copyright">>, 2, <<"copyright">>,
                  <<HTTP, "storage/1.pdf">>)
K2 == CaseSummary(556, <<"C", PIPE, "D">>, <<"1:25-cv-00002">>, <<>>, 0,
                  <<"unknown">>, <<>>)

Document(docket_id, date_filed, doc_number, document_url) ==
  [docket_id |-> docket_id, date_filed |-> date_filed,
   case_name |-> <<"A", SP, "v.", SP, "B">>, doc_type |-> <<"Complaint">>,
   doc_number |-> doc_number, document_url |-> document_url,
   pdf_url |-> <<>>, extracted_causes |-> <<"unknown">>,
   extracted_ai_snippet |-> <<"training">>]

D1 == Document(555, 2, <<"1">>, <<HTTP, "recap/1">>)
\* A case whose complaint link holds a pipe: its row of the Cases table has
\* one column more than the header.  K3ok is the same docket with a link
\* that holds none.
K3 == CaseSummary(557, <<"E", SP, "v.", SP, "F">>, <<"2:25-cv-00003">>, <<>>, 1,
                  <<"unknown">>, <<HTTP, "storage/3", PIPE, "x.pdf">>)
K3ok == CaseSummary(557, <<"E", SP, "v.", SP, "F">>, <<"2:25-cv-00003">>, <<>>, 1,
                    <<"unknown">>, <<HTTP, "storage/3.pdf">>)

\* A lawsuit whose article address holds a pipe: its row of the News table
\* has one column more than the header.
L4 == Lawsuit(1, <<"unknown">>, <<"Model", SP, "suit">>, <<"unknown">>,
              <<"dataset">>, << <<HTTP, "u4", PIPE, "x">> >>)

\* What one run collected: the arguments of render_markdown.
Collected(lawsuits, cl_docs, cl_cases) ==
  [lawsuits |-> lawsuits, cl_docs |-> cl_docs, cl_cases |-> cl_cases]

RunInputs ==
  { Collected(<<L1, L2, L3>>, <<D1>>, <<K1, K2>>),
    Collected(<<L2, L4>>, <<>>, <<K2, K3>>),
    Collected(<<L4>>, <<>>, <<K3ok>>),
    Collected(<<>>, <<>>, <<>>) }

\* LOOKBACK_DAYS of the environment, by default 3.
lookback_days == 3

Report(inp) ==
  render_markdown(inp.lawsuits, inp.cl_docs, inp.cl_cases,
                  Len(inp.cl_docs), lookback_days)

RenderedReports == {Report(inp) : inp \in RunInputs}

\* A comment somebody wrote by hand on the ticket: a two-column Cases table
\* with the docket cell of K2, a row of one column, and a News table whose
\* link is the address of L2 with another language marker.
ForeignComment ==
  Join(<< <<"manual", SP, "note">>,
          NewsTitle,
          RowLine(<< COL_TITLE >>),
          _md_sep(1),
          RowLine(<< <<"[", "seen", "]", "(", HTTP, "u2", HL, "ko", ")">> >>),
          <<>>,
          CasesTitle,
          RowLine(<< COL_DOCKET, COL_CASE >>),
          _md_sep(2),
          RowLine(<< _mdlink(K2.docket_number, DocketUrl(K2)), <<"C v. D">> >>),
          RowLine(<< _mdlink(K3.docket_number, DocketUrl(K3)) >>) >>, <<NL>>)

\* A report that did not come from render_markdown: its Cases table has no
\* case_name column.
PlainReport ==
  Join(<< CasesTitle,
          RowLine(<< COL_NO, COL_DOCKET >>),
          _md_sep(2),
          RowLine(<< <<"1">>, _mdlink(K1.docket_number, DocketUrl(K1)) >>),
          RowLine(<< <<"2">>, <<"7:77-cv-00007">> >>) >>, <<NL>>)

\* The reports that apply_deduplication is called on.
Reports ==
  { Report(Collected(<<L1, L2, L3>>, <<D1>>, <<K1, K2>>)),
    Report(Collected(<<L2, L4>>, <<>>, <<K2, K3>>)),
    Report(Collected(<<L4>>, <<>>, <<K3ok>>)),
    Report(Collected(<<>>, <<>>, <<>>)),
    PlainReport }

(***************************************************************************)
(* src/run.py: the deduplication inlined in main (lines 130-324).  Its     *)
(* nested extract_section, parse_table and extract_article_url are copies  *)
(* of the functions of src/dedup.py, modelled above.                       *)
(***************************************************************************)

main_base_article_set(comments) ==
  UNION {ArticleKeysOf(comments[i]) : i \in 1..Len(comments)}

main_base_docket_set(comments) ==
  UNION {DocketKeysOf(comments[i]) : i \in 1..Len(comments)}

\* The row a duplicate becomes: the columns of keep as they are, "skip" in
\* every other one (0 in keep stands for a column the header does not have).
SkipRow(r, keep) ==
  [i \in 1..Len(r) |-> IF i \in keep THEN r[i] ELSE <<"skip">>]

\* The News part of main's deduplication.
main_news(current_md, base) ==
  LET Replaced(news_section, t, title_idx, non_skip_rows, new_news_section) ==
        [md |-> replace(current_md, news_section, new_news_section),
         total |-> Len(t.rows),
         new |-> Len(non_skip_rows),
         keys |-> [k \in 1..Len(non_skip_rows) |->
                     extract_article_url(non_skip_rows[k][title_idx])],
         section |-> new_news_section,
         rewritten |-> TRUE]
      Sorted(news_section, t, title_idx, no_idx, date_idx, non_skip_rows, dups) ==
        LET skip_rows == [k \in 1..Len(dups) |->
                            SkipRow(dups[k], {no_idx, date_idx, title_idx})]
            final_rows == non_skip_rows \o skip_rows
        IN Replaced(news_section, t, title_idx, non_skip_rows,
                    TableText(t.header, t.separator, final_rows, no_idx))
      Located(news_section, t, title_idx, no_idx, date_idx) ==
        LET IsNew(r) == extract_article_url(r[title_idx]) \notin base
            IsDup(r) == ~IsNew(r)
        IN IF title_idx # 0
           THEN Sorted(news_section, t, title_idx, no_idx, date_idx,
                       SelectSeq(t.rows, IsNew), SelectSeq(t.rows, IsDup))
           ELSE [md |-> current_md, total |-> Len(t.rows), new |-> 0,
                 keys |-> <<>>, section |-> news_section, rewritten |-> FALSE]
      Parsed(news_section, t) ==
        Located(news_section, t, Index(t.headers, COL_TITLE),
                Index(t.headers, COL_NO), Index(t.headers, COL_DATE))
      Section(news_section) == Parsed(news_section, parse_table(news_section))
  IN Section(extract_section(current_md, NewsTitle))

\* The Cases part of main's deduplication.
main_cases(current_md, base) ==
  LET Replaced(recap_section, t, docket_idx, non_skip_rows, new_recap_section) ==
        [md |-> replace(current_md, recap_section, new_recap_section),
         total |-> Len(t.rows),
         new |-> Len(non_skip_rows),
         keys |-> [k \in 1..Len(non_skip_rows) |->
                     non_skip_rows[k][docket_idx]],
         section |-> new_recap_section,
         rewritten |-> TRUE]
      Sorted(recap_section, t, docket_idx, keep, no_idx, non_skip_rows, dups) ==
        LET skip_rows == [k \in 1..Len(dups) |-> SkipRow(dups[k], keep)]
            final_rows == non_skip_rows \o skip_rows
        IN Replaced(recap_section, t, docket_idx, non_skip_rows,
                    TableText(t.header, t.separator, final_rows, no_idx))
      Located(recap_section, t, docket_idx, no_idx, status_idx, case_idx) ==
        LET IsNew(r) == r[docket_idx] \notin base
            IsDup(r) == ~IsNew(r)
        IN IF docket_idx # 0
           THEN Sorted(recap_section, t, docket_idx,
                       {no_idx, status_idx, case_idx, docket_idx}, no_idx,
                       SelectSeq(t.rows, IsNew), SelectSeq(t.rows, IsDup))
           ELSE [md |-> current_md, total |-> Len(t.rows), new |-> 0,
                 keys |-> <<>>, section |-> recap_section, rewritten |-> FALSE]
      Parsed(recap_section, t) ==
        Located(recap_section, t, Index(t.headers, COL_DOCKET),
                Index(t.headers, COL_NO), Index(t.headers, COL_STATUS),
                Index(t.headers, COL_CASE))
      Section(recap_section) == Parsed(recap_section, parse_table(recap_section))
  IN Section(extract_section(current_md, CasesTitle))

\* The locals of main after its deduplication block, for a ticket that has
\* comments already.
main_dedup_locals(md, comments) ==
  LET Locals(bn, bc, n, c) ==
        [raised |-> FALSE,
         base_article_set |-> bn,
         base_docket_set |-> bc,
         total_article_count |-> n.total,
         new_article_count |-> n.new,
         total_docket_count |-> c.total,
         new_docket_count |-> c.new,
         news_keys |-> n.keys,
         case_keys |-> c.keys,
         out |-> summary_header(Cardinality(bn), n.total - n.new, n.new,
                                Cardinality(bc), c.total - c.new, c.new)
                 \o c.md]
      AfterNews(bn, bc, n) == Locals(bn, bc, n, main_cases(n.md, bc))
      AfterBase(bn, bc) == AfterNews(bn, bc, main_news(md, bn))
  IN AfterBase(main_base_article_set(comments), main_base_docket_set(comments))
(***************************************************************************)
(* THE TICKET.  The state of one daily ticket and of the runs on it.       *)
(***************************************************************************)

VARIABLES
  comments,         \* the bodies of the ticket's comments, oldest first
  last,             \* what the latest run computed
  counted,          \* bag: how often runs counted an identity key as new
  base_news_seen,   \* every article key that some run had in its baseline
  base_cases_seen,  \* every docket key that some run had in its baseline
  agg,              \* the aggregation step of one run
  flt,              \* the date filters of one run
  cls,              \* one call of _detect_complaint_type
  res,              \* the resolution of one docket's complaint
  scr,              \* one call of a risk score function
  env,              \* the start of one run: its environment and its calls
  nws,              \* one call of build_lawsuits_from_news
  gh                \* one call of close_other_daily_issues

vars == <<comments, last, counted, base_news_seen, base_cases_seen,
          agg, flt, cls,
                 res, scr, env, nws, gh>>

\* The ticket holds at most MaxComments comments.
MaxComments == 3

NoRun ==
  [op |-> "none", md |-> <<>>, input |-> <<>>, history_len |-> 0,
   first_run |-> TRUE, raised |-> FALSE, repeat |-> FALSE,
   base_article_set |-> {}, base_docket_set |-> {},
   total_article_count |-> 0, new_article_count |-> 0,
   total_docket_count |-> 0, new_docket_count |-> 0,
   news_keys |-> <<>>, case_keys |-> <<>>, out |-> <<>>]

\* github_issue.list_comments: the comments of the ticket.  One request,
\* taken to return them all.
list_comments == comments

\* The record of a run: v holds the locals of the deduplication, absent on
\* a ticket without comments.
RunRecord(op, md, input, history, repeat, v, out) ==
  IF history = <<>>
  THEN [NoRun EXCEPT !.op = op, !.md = md, !.input = input, !.out = out,
                     !.repeat = repeat]
  ELSE [op |-> op, md |-> md, input |-> input, history_len |-> Len(history),
        first_run |-> FALSE, raised |-> v.raised, repeat |-> repeat,
        base_article_set |-> v.base_article_set,
        base_docket_set |-> v.base_docket_set,
        total_article_count |-> v.total_article_count,
        new_article_count |-> v.new_article_count,
        total_docket_count |-> v.total_docket_count,
        new_docket_count |-> v.new_docket_count,
        news_keys |-> v.news_keys, case_keys |-> v.case_keys,
        out |-> out]

\* The bag of the keys of a list, None (a row without a link) left out.
KeyBag(keys) ==
  LET ks == Range(keys) \ {None}
  IN [k \in ks |-> Cardinality({i \in 1..Len(keys) : keys[i] = k})]

\* What a run that deduplicated adds to the bookkeeping of the ticket.
Booked(history, v) ==
  IF history = <<>>
  THEN [counted |-> counted,
        base_news_seen |-> base_news_seen,
        base_cases_seen |-> base_cases_seen]
  ELSE [counted |-> IF v.raised THEN counted
                    ELSE counted (+) KeyBag(v.news_keys) (+) KeyBag(v.case_keys),
        base_news_seen |-> base_news_seen \cup v.base_article_set,
        base_cases_seen |-> base_cases_seen \cup v.base_docket_set]

\* The bookkeeping of the ticket after a run that adds b to it.
Book(b) ==
  /\ counted' = b.counted
  /\ base_news_seen' = b.base_news_seen
  /\ base_cases_seen' = b.base_cases_seen

\* f"### ...(KST): {run_ts_kst}\n\n" + md: the line of the time of the run,
\* one atom, because nothing reads it.
Stamped(md) == <<"### run time (KST): run_ts_kst", NL, NL>> \o md

\* run.main from the rendering on: render, read the ticket's comments,
\* deduplicate against them unless there are none, post the result.
RunMain(inp) ==
  LET Post(md, history, v) ==
        LET first_run_today == Len(history) = 0
            out == IF first_run_today THEN md ELSE v.out
            comment_body == <<NL, NL>> \o out
            repeat == /\ last.op = "main"
                      /\ last.input = inp
                      /\ Len(history) = last.history_len + 1
        IN /\ comments' = Append(comments, comment_body)
           /\ last' = RunRecord("main", md, inp, history, repeat, v, out)
           /\ Book(Booked(history, v))
      Deduplicate(md, history) ==
        Post(md, history, main_dedup_locals(md, history))
  IN /\ Len(comments) < MaxComments
     /\ Deduplicate(Stamped(Report(inp)), list_comments)
     /\ UNCHANGED <<agg, flt, cls,
                 res, scr, env, nws, gh>>

\* A run that deduplicates with dedup.apply_deduplication: it reads the
\* ticket's comments, calls the function on its report and posts what the
\* function returns; when the function raises, nothing is posted.
RunWithDedup(md) ==
  LET Post(history, v, out) ==
        LET repeat == /\ last.op = "dedup"
                      /\ last.md = md
                      /\ ~last.raised
                      /\ Len(history) = last.history_len + 1
        IN /\ comments' = IF out = TypeError THEN comments
                          ELSE Append(comments, out)
           /\ last' = RunRecord("dedup", md, <<>>, history, repeat, v, out)
           /\ Book(Booked(history, v))
      Deduplicate(history, v) == Post(history, v, Returned(md, history, v))
  IN /\ Len(comments) < MaxComments
     /\ Deduplicate(list_comments, dedup_locals(md, list_comments))
     /\ UNCHANGED <<agg, flt, cls,
                 res, scr, env, nws, gh>>

\* github_issue.create_comment called by somebody else, with a body written
\* by hand.
PostComment(body) ==
  /\ Len(comments) < MaxComments
  /\ comments' = Append(comments, body)
  /\ UNCHANGED <<last, counted, base_news_seen, base_cases_seen,
                 agg, flt, cls,
                 res, scr, env, nws, gh>>

\* The other variables of the module stay as they start.
Idle == [phase |-> "idle"]

Init ==
  /\ comments = <<>>
  /\ last = NoRun
  /\ counted = EmptyBag
  /\ base_news_seen = {}
  /\ base_cases_seen = {}
  /\ agg = Idle
  /\ flt = Idle
  /\ cls = Idle
  /\ res = Idle
  /\ scr = Idle
  /\ env = Idle
  /\ nws = Idle
  /\ gh = Idle

Next ==
  \/ \E inp \in RunInputs : RunMain(inp)
  \/ \E md \in Reports : RunWithDedup(md)
  \/ PostComment(ForeignComment)

Spec == Init /\ [][Next]_vars
(***************************************************************************)
(* Properties of the runs on the ticket.                                   *)
(***************************************************************************)

\* The latest run deduplicated (the ticket had comments) and completed.
Deduplicated == last.op # "none" /\ ~last.first_run /\ ~last.raised

\* The keys that the comments the latest run read hold in well-formed rows.
HistoryArticleKeys ==
  UNION {ArticleKeysOf(comments[i]) : i \in 1..last.history_len}

HistoryDocketKeys ==
  UNION {DocketKeysOf(comments[i]) : i \in 1..last.history_len}

\* The tables of the report the latest run worked on.
CurrentNews == parse_table(extract_section(last.md, NewsTitle))

CurrentCases == parse_table(extract_section(last.md, CasesTitle))

CurrentTitleIdx == Index(CurrentNews.headers, COL_TITLE)

CurrentDocketIdx == Index(CurrentCases.headers, COL_DOCKET)

\* The rows of the current report whose key no comment of the history holds.
FreshNewsRows ==
  IF CurrentTitleIdx = 0 THEN {}
  ELSE {k \in 1..Len(CurrentNews.rows) :
          extract_article_url(CurrentNews.rows[k][CurrentTitleIdx])
            \notin HistoryArticleKeys}

FreshCasesRows ==
  IF CurrentDocketIdx = 0 THEN {}
  ELSE {k \in 1..Len(CurrentCases.rows) :
          CurrentCases.rows[k][CurrentDocketIdx] \notin HistoryDocketKeys}

\* C2: in a run that deduplicates, a current row whose key (docket cell, or
\* extracted article address) occurs in a comment of the history is a
\* duplicate: no key of the history is among the keys counted as new, and
\* the New counts of the summary count no more than the rows whose key the
\* history does not hold.
TheoremC2 ==
  Deduplicated =>
    /\ Range(last.news_keys) \cap HistoryArticleKeys = {}
    /\ Range(last.case_keys) \cap HistoryDocketKeys = {}
    /\ last.new_article_count <= Cardinality(FreshNewsRows)
    /\ last.new_docket_count <= Cardinality(FreshCasesRows)
    /\ last.new_article_count = Len(last.news_keys)
    /\ last.new_docket_count = Len(last.case_keys)

\* A run in which some rows of both tables were duplicates and others new.
WitnessC2 ==
  /\ Deduplicated
  /\ 0 < last.new_article_count
  /\ last.new_article_count < last.total_article_count
  /\ 0 < last.new_docket_count
  /\ last.new_docket_count < last.total_docket_count

\* C3: when a run processes the rendered report that the run before it
\* processed, and the history is the earlier run's history followed by the
\* comment the earlier run posted, the summary of the second run reports 0
\* new News items and 0 new Cases items.
TheoremC3 ==
  (last.repeat /\ (last.op = "main" \/ last.md \in RenderedReports)) =>
    /\ Deduplicated
    /\ last.new_article_count = 0
    /\ last.new_docket_count = 0

\* A second run of apply_deduplication on a report with rows in both tables,
\* the first run having had a history of its own.
WitnessC3 ==
  /\ last.repeat
  /\ last.op = "dedup"
  /\ last.md \in RenderedReports
  /\ last.history_len >= 2
  /\ last.total_article_count > 0
  /\ last.total_docket_count > 0

\* C4: over the runs on the ticket, every identity key (article address of
\* a News row, docket cell of a Cases row) has been counted as new at most
\* once.
CounterexampleC4 ==
  \A k \in BagToSet(counted) : CopiesIn(k, counted) <= 1

RejectedLines(section_md) ==
  LET lines == SelectSeq(split(section_md, NL), IsTableLine)
      Mismatch(l) == Len(split_row(l)) # Len(split_row(lines[1]))
  IN IF Len(lines) < 3 THEN <<>> ELSE SelectSeq(From(lines, 3), Mismatch)

\* The lines of a table (all but the header and the separator) with the
\* header's number of columns.
AcceptedLines(section_md) ==
  LET lines == SelectSeq(split(section_md, NL), IsTableLine)
      Match(l) == Len(split_row(l)) = Len(split_row(lines[1]))
  IN IF Len(lines) < 3 THEN <<>> ELSE SelectSeq(From(lines, 3), Match)

\* The column of a table that the header names so (0: none).
ColumnOf(section_md, name) ==
  LET lines == SelectSeq(split(section_md, NL), IsTableLine)
  IN IF Len(lines) < 3 THEN 0 ELSE Index(split_row(lines[1]), name)

\* What the accepted lines of a comment's Cases table hold in the docket
\* column.
AcceptedDocketCells(body) ==
  LET sec == extract_section(body, CasesTitle)
      acc == AcceptedLines(sec)
      idx == ColumnOf(sec, COL_DOCKET)
  IN IF idx = 0 THEN {} ELSE {split_row(acc[k])[idx] : k \in 1..Len(acc)}

\* The addresses in the title column of the accepted lines of a comment's
\* News table.
AcceptedArticleKeys(body) ==
  LET sec == extract_section(body, NewsTitle)
      acc == AcceptedLines(sec)
      idx == ColumnOf(sec, COL_TITLE)
  IN IF idx = 0 THEN {}
     ELSE {extract_article_url(split_row(acc[k])[idx]) : k \in 1..Len(acc)}

\* The number of columns of every table line of a section is the header's.
AllOfHeaderWidth(section_md) ==
  LET lines == SelectSeq(split(section_md, NL), IsTableLine)
  IN \A k \in 1..Len(lines) :
       Len(split_row(lines[k])) = Len(split_row(lines[1]))

\* The lines of the table of a section.
TableLines(section_md) ==
  Range(SelectSeq(split(section_md, NL), IsTableLine))

\* The lawsuits of a run whose row of the News table has the six columns of
\* the header: those whose article address holds no pipe.
SixColumnLawsuits(lawsuits) ==
  {k \in 1..Len(lawsuits) : PIPE \notin Range(lawsuits[k].article_urls[1])}

\* C10: a row is split on the pipes that no backslash precedes, so that a
\* rendered cell with an escaped pipe stays one cell: the rows that
\* parse_table accepts from a report of main are those of the lawsuits
\* whose address holds no pipe, with the title cell as rendered.  A row
\* whose number of columns is not the header's is rejected: what it holds in
\* the docket column is in the baseline only if an accepted row holds it,
\* and its line is in neither table that the deduplication emits.
TheoremC10 ==
  /\ (last.op = "main" /\ ~last.first_run) =>
       /\ last.total_article_count
            = Cardinality(SixColumnLawsuits(last.input.lawsuits))
       /\ {CurrentNews.rows[k][CurrentTitleIdx] : k \in 1..Len(CurrentNews.rows)}
            = {_mdlink(Title(last.input.lawsuits[k]),
                       last.input.lawsuits[k].article_urls[1]) :
                 k \in SixColumnLawsuits(last.input.lawsuits)}
  /\ (last.op # "none" /\ ~last.first_run) =>
       /\ last.base_docket_set
            \subseteq UNION {AcceptedDocketCells(comments[i]) :
                               i \in 1..last.history_len}
       /\ last.base_article_set
            \subseteq UNION {AcceptedArticleKeys(comments[i]) :
                               i \in 1..last.history_len}
  /\ Deduplicated =>
       /\ CurrentTitleIdx # 0 =>
            /\ AllOfHeaderWidth(extract_section(last.out, NewsTitle))
            /\ LET rej == RejectedLines(extract_section(last.md, NewsTitle))
               IN Range(rej) \cap TableLines(extract_section(last.out, NewsTitle)) = {}
       /\ CurrentDocketIdx # 0 =>
            /\ AllOfHeaderWidth(extract_section(last.out, CasesTitle))
            /\ LET rej == RejectedLines(extract_section(last.md, CasesTitle))
               IN Range(rej) \cap TableLines(extract_section(last.out, CasesTitle)) = {}

\* A run of apply_deduplication on a report that holds an escaped pipe in
\* an accepted title cell and a rejected News row, on a ticket with a
\* comment that holds a rejected Cases row with the docket cell of K3.
WitnessC10 ==
  /\ Deduplicated
  /\ last.op = "dedup"
  /\ RejectedLines(extract_section(last.md, NewsTitle)) # <<>>
  /\ \E k \in 1..Len(CurrentNews.rows) :
       BSL \in Range(CurrentNews.rows[k][CurrentTitleIdx])
  /\ \E i \in 1..last.history_len :
       LET rej == RejectedLines(extract_section(comments[i], CasesTitle))
       IN \E k \in 1..Len(rej) :
            /\ Len(split_row(rej[k])) >= 4
            /\ split_row(rej[k])[4] = _mdlink(K3.docket_number, DocketUrl(K3))
  /\ _mdlink(K3.docket_number, DocketUrl(K3)) \notin last.base_docket_set
(***************************************************************************)
(* src/courtlistener.py and the collection of src/run.py (lines 48-88).    *)
(* A date string is a record: kind "missing" for None or "", "bad" for a   *)
(* text that datetime.fromisoformat rejects, "day" for an ISO date, with   *)
(* its day number and the time of day that follows the tenth character.    *)
(***************************************************************************)

NoDate == [kind |-> "missing", day |-> 0, tod |-> ""]
BadDate == [kind |-> "bad", day |-> 0, tod |-> ""]
Day(n) == [kind |-> "day", day |-> n, tod |-> ""]
DayAt(n, tod) == [kind |-> "day", day |-> n, tod |-> tod]

\* date_val[:10]: the date without the time of day.
First10(date_val) == [date_val EXCEPT !.tod = ""]

\* A classifier that looks for "amended" before the longer keywords.
amended_first(desc) ==
  LET d == lower(desc)
  IN IF Contains(d, <<"amended">>) THEN "Amended"
     ELSE IF Contains(d, <<"second", SP, "amended">>) THEN "Second Amended"
     ELSE IF Contains(d, <<"third", SP, "amended">>) THEN "Third Amended"
     ELSE IF Contains(d, <<"class", SP, "action">>) THEN "Class Action"
     ELSE IF Contains(d, <<"petition">>) THEN "Petition"
     ELSE "Original"

_detect_complaint_type(desc) ==
  LET d == lower(desc)
  IN IF Contains(d, <<"second", SP, "amended">>) THEN "Second Amended"
     ELSE IF Contains(d, <<"third", SP, "amended">>) THEN "Third Amended"
     ELSE IF Contains(d, <<"amended">>) THEN "Amended"
     ELSE IF Contains(d, <<"class", SP, "action">>) THEN "Class Action"
     ELSE IF Contains(d, <<"petition">>) THEN "Petition"
     ELSE "Original"

\* A search hit: the fields that the collection reads.  docket_id 0 stands
\* for an absent field, docket for the number in the address of the
\* "docket" field (0: the field is absent).
Hit(absolute_url, caseName, docket_id, docket, dateFiled) ==
  [absolute_url |-> absolute_url, caseName |-> caseName,
   docket_id |-> docket_id, docket |-> docket, dateFiled |-> dateFiled]

\* The name of the error that the handlers of lines 284-286 and 461-463
\* raise: they print a variable e that nothing binds.
NameError == "NameError"

\* search_recent_documents on the results that the search API returned:
\* what it returns, or that it raised.
search_recent_documents(results, days, today) ==
  LET cutoff == today - days
      Kept(r) == \/ r.dateFiled.kind = "missing"
                 \/ /\ r.dateFiled.kind = "day"
                    /\ ~(First10(r.dateFiled).day < cutoff)
      out == SelectSeq(results, Kept)
      Injected(hit) == IF hit.docket_id = 0 /\ hit.docket # 0
                       THEN [hit EXCEPT !.docket_id = hit.docket]
                       ELSE hit
  IN IF \E i \in 1..Len(results) : results[i].dateFiled.kind = "bad"
     THEN [raised |-> NameError, out |-> <<>>]
     ELSE [raised |-> "", out |-> [i \in 1..Len(out) |-> Injected(out[i])]]

\* _pick_docket_id: 0 stands for None.
_pick_docket_id(hit) ==
  IF hit.docket_id # 0 THEN hit.docket_id ELSE hit.docket

\* The hits as keyed by main (lines 55-59): dedup[key] = h for every hit,
\* then list(dedup.values()): one hit per key, at the place of the key's
\* first hit, the key's last hit.
HitKey(h) == h.absolute_url \o <<PIPE>> \o h.caseName

DedupHits(hits) ==
  LET IsFirst(i) == \A j \in 1..(i - 1) : HitKey(hits[j]) # HitKey(hits[i])
      firsts == SelectSeq([i \in 1..Len(hits) |-> i], IsFirst)
      LastOf(i) == Greatest({j \in 1..Len(hits) : HitKey(hits[j]) = HitKey(hits[i])})
  IN [k \in 1..Len(firsts) |-> hits[LastOf(firsts[k])]]

\* What CourtListener holds: the dockets by identifier, the identifiers
\* that the docket list gives for a docket number, the hits that the search
\* gives for a case title.
DocketOf(did) ==
  CASE did = 555 -> K1
    [] did = 556 -> K2
    [] did = 557 -> K3ok

ByNumber(dn) ==
  CASE dn = <<"3:24-cv-01234">> -> <<555>>
    [] dn = <<"1:25-cv-00002">> -> <<556, 557>>
    [] OTHER -> <<>>

ByTitle(ct, today) ==
  CASE ct = <<"A v. B">> ->
         << Hit(<<HTTP, "doc/9">>, <<"A v. B">>, 0, 555, Day(today)) >>
    [] OTHER -> <<>>

\* build_case_summary_from_docket_id: one call of the resolution chain;
\* None (here <<>>) when the docket request fails.
build_case_summary_from_docket_id(docket_id, down) ==
  IF docket_id \in down THEN <<>> ELSE <<DocketOf(docket_id)>>

\* The builders return the summaries and the docket identifiers of the
\* calls of build_case_summary_from_docket_id they made, in order.
Built(dids, down) ==
  [out |-> Flatten([k \in 1..Len(dids) |->
                      build_case_summary_from_docket_id(dids[k], down)]),
   calls |-> dids]

build_case_summaries_from_hits(hits, down) ==
  LET picked == [k \in 1..Len(hits) |-> _pick_docket_id(hits[k])]
      Truthy(did) == did # 0
  IN Built(SelectSeq(picked, Truthy), down)

build_case_summaries_from_docket_numbers(docket_numbers, down) ==
  Built(Flatten([k \in 1..Len(docket_numbers) |-> ByNumber(docket_numbers[k])]),
        down)

build_case_summaries_from_case_titles(case_titles, down, today) ==
  LET PerTitle(ct) ==
        build_case_summaries_from_hits(
          search_recent_documents(ByTitle(ct, today), 365, today).out, down)
  IN [out |-> Flatten([k \in 1..Len(case_titles) |-> PerTitle(case_titles[k]).out]),
      calls |-> Flatten([k \in 1..Len(case_titles) |-> PerTitle(case_titles[k]).calls])]

\* [s.case_number for s in lawsuits if it is not blank and not "unknown"]
docket_numbers(lawsuits) ==
  LET Named(s) == strip(s.case_number) # <<>> /\ s.case_number # <<"unknown">>
      named == SelectSeq(lawsuits, Named)
  IN [k \in 1..Len(named) |-> named[k].case_number]

case_titles(lawsuits) ==
  LET Named(s) == strip(s.case_title) # <<>> /\ s.case_title # <<"unknown">>
      named == SelectSeq(lawsuits, Named)
  IN [k \in 1..Len(named) |-> named[k].case_title]

\* A case list that keeps every summary of the three lists.
all_cases(cases) == cases

\* {c.docket_id: c for c in cases}, then list(values()): one summary per
\* docket_id, at the place of the first, the last one of that docket.
merged_cases(cases) ==
  LET IsFirst(i) == \A j \in 1..(i - 1) : cases[j].docket_id # cases[i].docket_id
      firsts == SelectSeq([i \in 1..Len(cases) |-> i], IsFirst)
      LastOf(i) == Greatest({j \in 1..Len(cases) :
                               cases[j].docket_id = cases[i].docket_id})
  IN [k \in 1..Len(firsts) |-> cases[LastOf(firsts[k])]]
\* _abs_url for the addresses of the model: one that starts with "/" gets
\* the base in front, one that starts with the scheme stays.
_abs_url(u) ==
  IF u = <<>> THEN <<>>
  ELSE IF u[1] = HTTP THEN u
  ELSE IF u[1] = "/" THEN <<HTTP, "www.courtlistener.com">> \o u
  ELSE IF u[1] \in {"pdf/", "gov.uscourts"}
  THEN <<HTTP, "storage.courtlistener.com", "/recap/">> \o u
  ELSE u

\* A document of the RECAP list of a docket.
RecapDoc(description, date_filed, document_number) ==
  [description |-> description, date_filed |-> date_filed,
   document_number |-> document_number,
   absolute_url |-> <<"/", "docket/doc/">> \o document_number]

\* any(k in desc for k in COMPLAINT_KEYWORDS), desc in lower case
IsComplaint(desc) ==
  \/ Contains(desc, <<"complaint">>)
  \/ Contains(desc, <<"amended", SP, "complaint">>)
  \/ Contains(desc, <<"petition">>)
  \/ Contains(desc, <<"class", SP, "action", SP, "complaint">>)

\* if not docs: the RECAP list of the docket is empty.
not_docs(docs) == docs = <<>>

CLDocument(docket_id, date_filed, doc_type, doc_number, document_url) ==
  [docket_id |-> docket_id, date_filed |-> date_filed, doc_type |-> doc_type,
   doc_number |-> doc_number, document_url |-> document_url]

\* build_complaint_documents_from_hits on a world w: w.docs[did] is the
\* RECAP list of docket did, w.html[did] tells whether the page of the
\* docket links a PDF, w.filed[did] is the docket's date_filed.
build_complaint_documents_from_hits(hits, days, today, w) ==
  LET cutoff == today - days
      Truthy(hit) == _pick_docket_id(hit) # 0
      with_id == SelectSeq(hits, Truthy)
      Fallback(did) ==
        IF not_docs(w.docs[did]) /\ w.html[did]
        THEN << CLDocument(did, First10(w.filed[did]),
                           <<"Complaint (HTML Fallback)">>, <<"1">>,
                           <<HTTP, "storage/">> \o Str(did) \o <<".pdf">>) >>
        ELSE <<>>
      Complaint(d) == IsComplaint(lower(strip(d.description)))
      Accepted(d) ==
        /\ Complaint(d)
        /\ \/ First10(d.date_filed).kind = "missing"
           \/ /\ First10(d.date_filed).kind = "day"
              /\ ~(First10(d.date_filed).day < cutoff)
      Raises(d) == Complaint(d) /\ First10(d.date_filed).kind = "bad"
      FromRecap(did) ==
        LET acc == SelectSeq(w.docs[did], Accepted)
        IN [k \in 1..Len(acc) |->
              CLDocument(did, First10(acc[k].date_filed), <<"Complaint">>,
                         strip(acc[k].document_number),
                         _abs_url(acc[k].absolute_url))]
      PerHit(hit) == LET did == _pick_docket_id(hit)
                     IN Fallback(did) \o FromRecap(did)
  IN IF \E k \in 1..Len(with_id) :
          \E i \in 1..Len(w.docs[_pick_docket_id(with_id[k])]) :
            Raises(w.docs[_pick_docket_id(with_id[k])][i])
     THEN [raised |-> NameError, out |-> <<>>]
     ELSE [raised |-> "",
           out |-> Flatten([k \in 1..Len(with_id) |-> PerHit(with_id[k])])]

\* build_documents_from_docket_ids: it calls the builder without its days,
\* so the builder's default of 3 applies.
build_documents_from_docket_ids(docket_ids, days, today, w) ==
  build_complaint_documents_from_hits(
    [k \in 1..Len(docket_ids) |-> Hit(<<>>, <<>>, docket_ids[k], 0, NoDate)],
    3, today, w)

\* merged_docs[key] = d for d in (cl_docs + extra_docs), then the values:
\* one document per (docket_id, doc_number, date_filed, document_url).
DocKey(d) == <<d.docket_id, d.doc_number, d.date_filed, d.document_url>>

\* The two lists one after the other, nothing dropped.
all_docs(docs) == docs

merged_docs(docs) ==
  LET IsFirst(i) == \A j \in 1..(i - 1) : DocKey(docs[j]) # DocKey(docs[i])
      firsts == SelectSeq([i \in 1..Len(docs) |-> i], IsFirst)
      LastOf(i) == Greatest({j \in 1..Len(docs) : DocKey(docs[j]) = DocKey(docs[i])})
  IN [k \in 1..Len(firsts) |-> docs[LastOf(firsts[k])]]

(***************************************************************************)
(* THE AGGREGATION of one run: main, lines 48-79.                          *)
(***************************************************************************)

\* The model's queries, and the hits one query returns at most.
NumQueries == 2
MaxPerQuery == 1

\* The dates of the model reach MaxAge days back from the day of the run.
MaxAge == 4

today == MaxAge + 1

SeqsUpTo(S, n) == UNION {[1..k -> S] : k \in 0..n}

\* Two documents of docket 555, a document whose docket is known by the
\* address of its "docket" field only, and a hit of no docket.
HitPool ==
  { Hit(<<HTTP, "doc/1">>, <<"A v. B">>, 555, 0, Day(today)),
    Hit(<<HTTP, "doc/2">>, <<"A v. B">>, 555, 0, Day(today)),
    Hit(<<HTTP, "doc/3">>, <<"C v. D">>, 0, 556, Day(today)),
    Hit(<<HTTP, "doc/4">>, <<"E v. F">>, 0, 0, NoDate),
    \* two hits with no address and no case name
    Hit(<<>>, <<>>, 555, 0, Day(today)),
    Hit(<<>>, <<>>, 0, 556, Day(today)) }

AggLawsuits == { <<>>, <<L1>>, <<L1, L2, L3>>, <<L2, L4>>,
                 <<Lawsuit(1, <<"unknown">>, <<"Third", SP, "suit">>,
                           <<"1:25-cv-00002">>, <<"dataset">>,
                           << <<HTTP, "u5">> >>)>> }

AggInit ==
  /\ agg \in [phase : {"start"},
              results : [1..NumQueries -> SeqsUpTo(HitPool, MaxPerQuery)],
              lawsuits : AggLawsuits,
              down : {{}, {556}},
              raw : {<<>>}, hits : {<<>>}, cl_cases : {<<>>},
              extra_cases : {<<>>}, extra_cases_by_title : {<<>>},
              final : {<<>>}, calls : {<<>>}]
  /\ comments = <<>>
  /\ last = NoRun
  /\ counted = EmptyBag
  /\ base_news_seen = {}
  /\ base_cases_seen = {}
  /\ flt = Idle
  /\ cls = Idle
  /\ res = Idle
  /\ scr = Idle
  /\ env = Idle
  /\ nws = Idle
  /\ gh = Idle

\* Lines 48-59: every query's hits, then one hit per key.
AggSearch ==
  LET found == [q \in 1..NumQueries |->
                  search_recent_documents(agg.results[q], lookback_days, today)]
      raw == Flatten([q \in 1..NumQueries |-> found[q].out])
  IN /\ agg.phase = "start"
     /\ agg' = IF \E q \in 1..NumQueries : found[q].raised # ""
               THEN [agg EXCEPT !.phase = "raised"]
               ELSE [agg EXCEPT !.phase = "searched", !.raw = raw,
                                !.hits = DedupHits(raw)]
     /\ UNCHANGED <<comments, last, counted, base_news_seen, base_cases_seen,
                    flt, cls,
                 res, scr, env, nws, gh>>

\* Line 63: cl_cases = build_case_summaries_from_hits(hits).
AggFromHits ==
  LET b == build_case_summaries_from_hits(agg.hits, agg.down)
  IN /\ agg.phase = "searched"
     /\ agg' = [agg EXCEPT !.phase = "from_hits", !.cl_cases = b.out,
                           !.calls = agg.calls \o b.calls]
     /\ UNCHANGED <<comments, last, counted, base_news_seen, base_cases_seen,
                    flt, cls,
                 res, scr, env, nws, gh>>

\* Lines 70-76: the expansions by docket number and by case title.
AggExpand ==
  LET n == build_case_summaries_from_docket_numbers(
             docket_numbers(agg.lawsuits), agg.down)
      t == build_case_summaries_from_case_titles(
             case_titles(agg.lawsuits), agg.down, today)
  IN /\ agg.phase = "from_hits"
     /\ agg' = [agg EXCEPT !.phase = "expanded", !.extra_cases = n.out,
                           !.extra_cases_by_title = t.out,
                           !.calls = agg.calls \o n.calls \o t.calls]
     /\ UNCHANGED <<comments, last, counted, base_news_seen, base_cases_seen,
                    flt, cls,
                 res, scr, env, nws, gh>>

\* Lines 78-79: the final case list.
AggMerge ==
  /\ agg.phase = "expanded"
  /\ agg' = [agg EXCEPT !.phase = "merged",
                        !.final = merged_cases(agg.cl_cases \o agg.extra_cases
                                               \o agg.extra_cases_by_title)]
  /\ UNCHANGED <<comments, last, counted, base_news_seen, base_cases_seen,
                 flt, cls,
                 res, scr, env, nws, gh>>

AggNext == AggSearch \/ AggFromHits \/ AggExpand \/ AggMerge

AggSpec == AggInit /\ [][AggNext]_vars

\* The three result lists, one after the other.
AllCases == agg.cl_cases \o agg.extra_cases \o agg.extra_cases_by_title

DocketIds(cases) == {cases[i].docket_id : i \in 1..Len(cases)}

\* C1: at the end of the aggregation the final case list holds at most one
\* summary per docket_id, and every docket_id of the three result lists is
\* in the final list.
TheoremC1 ==
  agg.phase = "merged" =>
    /\ \A i, j \in 1..Len(agg.final) :
         i # j => agg.final[i].docket_id # agg.final[j].docket_id
    /\ DocketIds(AllCases) = DocketIds(agg.final)

\* An aggregation whose three lists are not empty and hold one docket more
\* than once, and more than one docket.
WitnessC1 ==
  /\ agg.phase = "merged"
  /\ agg.cl_cases # <<>>
  /\ agg.extra_cases # <<>>
  /\ agg.extra_cases_by_title # <<>>
  /\ Len(agg.final) < Len(AllCases)
  /\ Len(agg.final) >= 2

\* The docket identifiers among the raw hits and the expansion paths.
DistinctDockets ==
  LET raw == Flatten([q \in 1..NumQueries |-> agg.results[q]])
      dns == docket_numbers(agg.lawsuits)
      cts == case_titles(agg.lawsuits)
  IN ({_pick_docket_id(raw[i]) : i \in 1..Len(raw)}
      \cup UNION {Range(ByNumber(dns[i])) : i \in 1..Len(dns)}
      \cup UNION {{_pick_docket_id(ByTitle(cts[i], today)[k]) :
                     k \in 1..Len(ByTitle(cts[i], today))} : i \in 1..Len(cts)})
     \ {0}

\* C6: within one run the resolution chain is called at most once per
\* distinct docket identifier among the raw hits and the expansion paths.
CounterexampleC6 ==
  agg.phase = "merged" => Len(agg.calls) <= Cardinality(DistinctDockets)
(***************************************************************************)
(* THE DATE FILTERS of one run: the search of line 52, the documents of    *)
(* line 61, the documents by docket identifier of lines 82-88.             *)
(***************************************************************************)

\* The results of the search hold at most MaxResults hits.
MaxResults == 2

Lookbacks == {1, 3}

\* The hits of a search for a run of that many days: of docket 555 with no
\* date, with a date that does not parse, dated days ago (with and without
\* a time of day) and one day more; of docket 556 dated today.
FilterHits(days) ==
  { Hit(<<HTTP, "doc/1">>, <<"A v. B">>, 555, 0, NoDate),
    Hit(<<HTTP, "doc/2">>, <<"A v. B">>, 555, 0, BadDate),
    Hit(<<HTTP, "doc/3">>, <<"A v. B">>, 555, 0, Day(today - days)),
    Hit(<<HTTP, "doc/4">>, <<"A v. B">>, 0, 555,
        DayAt(today - days, "T23:59:59Z")),
    Hit(<<HTTP, "doc/5">>, <<"A v. B">>, 555, 0, Day(today - days - 1)),
    Hit(<<HTTP, "doc/6">>, <<"C v. D">>, 556, 0, Day(today)) }

\* The RECAP lists of docket 555.
DocLists ==
  { <<>>,
    << RecapDoc(<<"Complaint">>, Day(today), <<"1">>) >>,
    << RecapDoc(<<"Complaint">>, Day(today - 2), <<"1">>) >>,
    << RecapDoc(<<"Amended", SP, "Complaint">>,
                DayAt(today - 3, "T23:59:59Z"), <<"2">>) >>,
    << RecapDoc(<<"Complaint">>, Day(today - MaxAge), <<"1">>) >>,
    << RecapDoc(<<"Complaint">>, BadDate, <<"1">>) >>,
    << RecapDoc(<<"Petition">>, NoDate, <<"1">>) >>,
    << RecapDoc(<<"Order">>, BadDate, <<"3">>) >>,
    << RecapDoc(<<"Complaint">>, Day(today - 1), <<"1">>),
       RecapDoc(<<"Class", SP, "Action", SP, "Complaint">>,
                Day(today - MaxAge), <<"4">>) >>,
    \* a document and its attachment: one number, one date, two addresses
    << RecapDoc(<<"Complaint">>, Day(today), <<"1">>),
       [RecapDoc(<<"Exhibit", SP, "to", SP, "Complaint">>, Day(today), <<"1">>)
          EXCEPT !.absolute_url = <<"/", "docket/doc/", "1", "/att/1">>] >> }

\* Docket 556 has no RECAP list.
Worlds ==
  { [docs |-> (555 :> dl @@ 556 :> <<>>),
     html |-> (555 :> h @@ 556 :> h),
     filed |-> (555 :> Day(today - MaxAge) @@ 556 :> f)] :
      dl \in DocLists, h \in BOOLEAN, f \in {NoDate, Day(today - MaxAge)} }

FltInit ==
  /\ \E days \in Lookbacks :
       flt \in [phase : {"start"},
                days : {days},
                results : SeqsUpTo(FilterHits(days), MaxResults),
                world : Worlds,
                expansion_ids : {<<>>, <<555>>, <<556>>},
                hits : {<<>>}, cl_docs : {<<>>}, extra_docs : {<<>>},
                final : {<<>>}, docs_block : {<<>>}, raised_in : {""}]
  /\ comments = <<>>
  /\ last = NoRun
  /\ counted = EmptyBag
  /\ base_news_seen = {}
  /\ base_cases_seen = {}
  /\ agg = Idle
  /\ cls = Idle
  /\ res = Idle
  /\ scr = Idle
  /\ env = Idle
  /\ nws = Idle
  /\ gh = Idle

\* Line 52: hits.extend(search_recent_documents(q, days=lookback_days, ...)).
FltSearch ==
  LET r == search_recent_documents(flt.results, flt.days, today)
  IN /\ flt.phase = "start"
     /\ flt' = IF r.raised # ""
               THEN [flt EXCEPT !.phase = "raised", !.raised_in = "search"]
               ELSE [flt EXCEPT !.phase = "searched", !.hits = r.out]
     /\ UNCHANGED <<comments, last, counted, base_news_seen, base_cases_seen,
                    agg, cls,
                 res, scr, env, nws, gh>>

\* Line 61: cl_docs = build_complaint_documents_from_hits(hits, days=...).
FltDocs ==
  LET b == build_complaint_documents_from_hits(flt.hits, flt.days, today,
                                               flt.world)
  IN /\ flt.phase = "searched"
     /\ flt' = IF b.raised # ""
               THEN [flt EXCEPT !.phase = "raised", !.raised_in = "docs"]
               ELSE [flt EXCEPT !.phase = "docs", !.cl_docs = b.out]
     /\ UNCHANGED <<comments, last, counted, base_news_seen, base_cases_seen,
                    agg, cls,
                 res, scr, env, nws, gh>>

\* Lines 82-88: the documents of the dockets of the final case list (the
\* dockets of the hits and expansion_ids, those of the expansions), merged
\* with cl_docs.
FltExtra ==
  LET picked == [k \in 1..Len(flt.hits) |-> _pick_docket_id(flt.hits[k])]
      Truthy(did) == did # 0
      found == SelectSeq(picked, Truthy) \o flt.expansion_ids
      cases == merged_cases([k \in 1..Len(found) |-> [docket_id |-> found[k]]])
      docket_ids == [k \in 1..Len(cases) |-> cases[k].docket_id]
      Merged(extra_docs) ==
        IF extra_docs.raised # ""
        THEN [flt EXCEPT !.phase = "raised", !.raised_in = "extra"]
        ELSE [flt EXCEPT !.phase = "done",
                         !.extra_docs = extra_docs.out,
                         !.final = merged_docs(flt.cl_docs \o extra_docs.out)]
  IN /\ flt.phase = "docs"
     /\ flt' = Merged(build_documents_from_docket_ids(docket_ids, flt.days,
                                                      today, flt.world))
     /\ UNCHANGED <<comments, last, counted, base_news_seen, base_cases_seen,
                    agg, cls, res, scr, env, nws, gh>>

\* A document of the final collection as render_markdown reads it: the
\* date as the day of its text ("" gives 0), the case name of the docket.
AsRendered(d) ==
  [docket_id |-> d.docket_id,
   date_filed |-> IF d.date_filed.kind = "day" THEN d.date_filed.day ELSE 0,
   case_name |-> <<"unknown">>, doc_type |-> d.doc_type,
   doc_number |-> d.doc_number, document_url |-> d.document_url,
   pdf_url |-> <<>>]

\* Lines 101-108: render_markdown on the final collection; of the report
\* the state keeps the block of the court documents.
FltRender ==
  /\ flt.phase = "done"
  /\ flt' = [flt EXCEPT !.phase = "rendered",
                        !.docs_block =
                          DocsBlock([k \in 1..Len(flt.final) |->
                                       AsRendered(flt.final[k])])]
  /\ UNCHANGED <<comments, last, counted, base_news_seen, base_cases_seen,
                 agg, cls, res, scr, env, nws, gh>>

FltNext == FltSearch \/ FltDocs \/ FltExtra \/ FltRender

FltSpec == FltInit /\ [][FltNext]_vars

\* The date is a date that parses, of a day before the cutoff of the run.
TooOld(date) == date.kind = "day" /\ date.day < today - flt.days

\* C7: for a run of lookback_days = N, no hit that
\* search_recent_documents returned and no document of the final
\* collection has a date that parses and lies before today - N.
CounterexampleC7 ==
  /\ flt.phase \in {"searched", "docs", "done"} =>
       \A i \in 1..Len(flt.hits) : ~TooOld(flt.hits[i].dateFiled)
  /\ flt.phase = "done" =>
       \A i \in 1..Len(flt.final) : ~TooOld(flt.final[i].date_filed)

\* The date is missing, or does not parse.
NoUsableDate(date) == date.kind \in {"missing", "bad"}

\* C8: search_recent_documents and build_complaint_documents_from_hits
\* complete without raising, and what they return holds every item whose
\* date is missing or does not parse.
CounterexampleC8 ==
  /\ flt.raised_in \notin {"search", "docs"}
  /\ flt.phase \in {"searched", "docs", "done"} =>
       \A i \in 1..Len(flt.results) :
         NoUsableDate(flt.results[i].dateFiled) =>
           \E k \in 1..Len(flt.hits) :
             flt.hits[k].absolute_url = flt.results[i].absolute_url
  /\ flt.phase \in {"docs", "done"} =>
       \A i \in 1..Len(flt.hits) :
         LET did == _pick_docket_id(flt.hits[i])
         IN did # 0 =>
              \A j \in 1..Len(flt.world.docs[did]) :
                LET d == flt.world.docs[did][j]
                IN (IsComplaint(lower(d.description)) /\ NoUsableDate(d.date_filed))
                     => \E k \in 1..Len(flt.cl_docs) :
                          /\ flt.cl_docs[k].docket_id = did
                          /\ flt.cl_docs[k].doc_number = d.document_number

(***************************************************************************)
(* THE CLASSIFIER: one call of _detect_complaint_type.                     *)
(***************************************************************************)

\* A description holds at most MaxWords words.
MaxWords == 3

WordPool == {"Second", "second", "THIRD", "Amended", "amended", "Class",
             "Action", "Petition", "Complaint", "Order"}

\* The descriptions: words with blanks between them, or with hyphens.
Descriptions ==
  {Join([k \in 1..Len(ws) |-> <<ws[k]>>], <<sep>>) :
     ws \in SeqsUpTo(WordPool, MaxWords), sep \in {SP, "-"}}

ClsInit ==
  /\ cls \in [phase : {"input"}, desc : Descriptions, result : {""}]
  /\ comments = <<>>
  /\ last = NoRun
  /\ counted = EmptyBag
  /\ base_news_seen = {}
  /\ base_cases_seen = {}
  /\ agg = Idle
  /\ flt = Idle
  /\ res = Idle
  /\ scr = Idle
  /\ env = Idle
  /\ nws = Idle
  /\ gh = Idle

Classify ==
  /\ cls.phase = "input"
  /\ cls' = [cls EXCEPT !.phase = "done",
                        !.result = _detect_complaint_type(cls.desc)]
  /\ UNCHANGED <<comments, last, counted, base_news_seen, base_cases_seen,
                 agg, flt, res, scr, env, nws, gh>>

ClsNext == Classify

ClsSpec == ClsInit /\ [][ClsNext]_vars

\* The description holds the words, in any case, with one blank between.
Has(words) == Contains(lower(cls.desc), words)

\* C9: the category is that of the first keyword present, in the order
\* second amended, third amended, amended, class action, petition, and
\* Original when none is: a description that holds "second amended" in any
\* case is "Second Amended", one that holds "third amended" and not "second
\* amended" is "Third Amended".
TheoremC9 ==
  cls.phase = "done" =>
    /\ Has(<<"second", SP, "amended">>) => cls.result = "Second Amended"
    /\ (Has(<<"third", SP, "amended">>) /\ ~Has(<<"second", SP, "amended">>))
         => cls.result = "Third Amended"
    /\ (/\ Has(<<"amended">>)
        /\ ~Has(<<"second", SP, "amended">>)
        /\ ~Has(<<"third", SP, "amended">>)) => cls.result = "Amended"
    /\ (Has(<<"class", SP, "action">>) /\ ~Has(<<"amended">>))
         => cls.result = "Class Action"
    /\ (/\ Has(<<"petition">>)
        /\ ~Has(<<"class", SP, "action">>)
        /\ ~Has(<<"amended">>)) => cls.result = "Petition"
    /\ (/\ ~Has(<<"petition">>)
        /\ ~Has(<<"class", SP, "action">>)
        /\ ~Has(<<"amended">>)) => cls.result = "Original"

\* The call on "Second Amended Complaint".
WitnessC9 ==
  /\ cls.phase = "done"
  /\ cls.desc = <<"Second", SP, "Amended", SP, "Complaint">>
  /\ cls.result = "Second Amended"

\* ------------------------------------------------------------------------
\* THE RESOLUTION CHAIN (courtlistener.py): the complaint of one docket,
\* after the docket itself was fetched.  The upstream API is a map from the
\* addresses the chain requests to the responses it gives.
\* ------------------------------------------------------------------------

\* What a parsed body is to the chain: None, the empty object, an object of
\* the RECAP list (results, next) or of a docket (absolute_url).
Json(json, results, next, absolute_url) ==
  [json |-> json, results |-> results, next |-> next,
   absolute_url |-> absolute_url]

NoData == Json("None", <<>>, "", <<>>)
EmptyObject == Json("{}", <<>>, "", <<>>)
Unparseable == Json("unparseable", <<>>, "", <<>>)
RecapPage(results, next) == Json("object", results, next, <<>>)
DocketMeta(absolute_url) == Json("object", <<>>, "", absolute_url)

\* if not data
Truthy(data) == data.json = "object"

\* The outcome of one requests.get: a transport exception, or a status and
\* a body; html names the address that the page of a docket links.
Response(exc, status, body, html) ==
  [exc |-> exc, status |-> status, body |-> body, html |-> html]

TransportError == Response(TRUE, 0, NoData, "")
Status(code) == Response(FALSE, code, NoData, "")
Ok(body) == Response(FALSE, 200, body, "")
HtmlPage(html) == Response(FALSE, 200, NoData, html)

\* _get with no try around its body: what it raises reaches the caller.
_get_uncaught(r) ==
  IF r.exc THEN [raised |-> "Exception", data |-> NoData]
  ELSE IF r.status \in {401, 403} THEN [raised |-> "", data |-> NoData]
  ELSE IF r.status >= 400 THEN [raised |-> "", data |-> NoData]
  ELSE IF r.body = Unparseable THEN [raised |-> "Exception", data |-> NoData]
  ELSE [raised |-> "", data |-> r.body]

\* _get: None for an authentication failure, for another status >= 400,
\* and for every exception of the request or of r.json(); else the body.
_get(r) ==
  IF r.exc THEN [raised |-> "", data |-> NoData]
  ELSE IF r.status \in {401, 403} THEN [raised |-> "", data |-> NoData]
  ELSE IF r.status >= 400 THEN [raised |-> "", data |-> NoData]
  ELSE IF r.body = Unparseable THEN [raised |-> "", data |-> NoData]
  ELSE [raised |-> "", data |-> r.body]

RECAP_DOCS_URL == "recap-documents/"
RecapPage2 == "recap-documents/?page=2"
DOCKET_URL == "dockets/1/"
DocketPage == "docket/1/a-v-b/"
STORAGE_BASE == <<HTTP, "storage.courtlistener.com">>

\* _extract_first_pdf_from_docket_html: the docket's address from the API,
\* then the page, then the first PDF address in it; "" for every failure.
_extract_first_pdf_from_docket_html(api) ==
  LET Page(r) ==
        IF r.exc THEN <<>>
        ELSE IF r.status # 200 THEN <<>>
        ELSE IF r.html = "absolute" THEN STORAGE_BASE \o <<"/recap/a.pdf">>
        ELSE IF r.html = "relative" THEN STORAGE_BASE \o <<"/recap/r.pdf">>
        ELSE <<>>
      Meta(g) ==
        IF g.raised # "" THEN <<>>
        ELSE IF ~Truthy(g.data) THEN <<>>
        ELSE IF g.data.absolute_url = <<>> THEN <<>>
        ELSE Page(api[DocketPage])
  IN Meta(_get(api[DOCKET_URL]))

\* No complaint document chosen.
NoDoc == [description |-> <<>>, date_filed |-> NoDate,
          document_number |-> <<>>, absolute_url |-> <<>>]

\* for d in recap_docs: if any(k in desc ...): complaint_doc = d; break
FirstComplaint(recap_docs) ==
  LET Matches(d) == IsComplaint(lower(strip(d.description)))
      Chosen(m) == IF m = <<>> THEN NoDoc ELSE m[1]
  IN Chosen(SelectSeq(recap_docs, Matches))

\* The complaint fields of the summary.
ComplaintFields(complaint_doc_no, complaint_link, complaint_type) ==
  [complaint_doc_no |-> complaint_doc_no, complaint_link |-> complaint_link,
   complaint_type |-> complaint_type]

\* d.get(key): the value of the key, None for a document without it.
get(d, key) == IF key \in DOMAIN d THEN d[key] ELSE <<>>

\* Only the public address of the document, whatever its local path.
public_address(d) == get(d, "absolute_url")

\* complaint_doc.get("filepath_local") or complaint_doc.get("absolute_url")
\* or ""
link_source(d) == OrElse(get(d, "filepath_local"), get(d, "absolute_url"))

\* if complaint_doc: the fields from the document; else the initial ones.
FromRecapDoc(d) ==
  IF d = NoDoc THEN ComplaintFields(<<"unknown">>, <<>>, "unknown")
  ELSE ComplaintFields(OrElse(strip(d.document_number), <<"1">>),
                       _abs_url(link_source(d)),
                       _detect_complaint_type(strip(d.description)))

\* if not complaint_link: the HTML fallback.
WithFallback(f, html_pdf_url) ==
  IF html_pdf_url = <<>> THEN f
  ELSE ComplaintFields(<<"1">>, html_pdf_url, "Complaint (HTML Fallback)")

\* The RECAP list of the model holds at most MaxDocs documents.
MaxDocs == 3

ResDocA == RecapDoc(<<"Complaint">>, Day(1), <<"1">>)
ResDocB == RecapDoc(<<"Amended", SP, "Complaint">>, Day(2), <<"7">>)
ResDocN == RecapDoc(<<"Order">>, Day(2), <<"3">>)
ResDocE == [RecapDoc(<<"Petition">>, Day(1), <<>>) EXCEPT !.absolute_url = <<>>]

\* A complaint with a local file path and no public address.
ResDocL == [description |-> <<"Complaint">>, date_filed |-> Day(1),
            document_number |-> <<"2">>, absolute_url |-> <<>>,
            filepath_local |-> <<"pdf/", "c.pdf">>]

ResultLists == {<<>>, <<ResDocN>>, <<ResDocA, ResDocB>>, <<ResDocB, ResDocA>>,
                <<ResDocE>>, <<ResDocL>>}

FailedResponses == {TransportError, Status(401), Status(403), Status(500),
                    Ok(Unparseable)}

RecapResponses ==
  FailedResponses \cup {Ok(EmptyObject)}
    \cup {Ok(RecapPage(r, n)) : r \in ResultLists,
                                 n \in {"", RECAP_DOCS_URL, RecapPage2}}

\* The answers to the request of the second page.
Page2Responses ==
  {Status(500), Ok(EmptyObject)}
    \cup {Ok(RecapPage(r, n)) : r \in {<<>>, <<ResDocB, ResDocA>>},
                                 n \in {"", RECAP_DOCS_URL, RecapPage2}}

DocketResponses ==
  FailedResponses \cup {Ok(DocketMeta(<<>>)), Ok(DocketMeta(<<"/", DocketPage>>))}

PageResponses ==
  {TransportError, Status(404), HtmlPage("absolute"), HtmlPage("relative"),
   HtmlPage("none")}

\* The behaviours of the upstream API.
Apis ==
  {[u \in {RECAP_DOCS_URL, RecapPage2, DOCKET_URL, DocketPage} |->
      CASE u = RECAP_DOCS_URL -> a
        [] u = RecapPage2 -> b
        [] u = DOCKET_URL -> c
        [] OTHER -> d] :
     a \in RecapResponses, b \in Page2Responses,
     c \in DocketResponses, d \in PageResponses}

\* recap_docs = []; url = RECAP_DOCS_URL; the initial complaint fields.
ResInit ==
  /\ res \in [phase : {"while"}, api : Apis, url : {RECAP_DOCS_URL},
              data : {NoData}, recap_docs : {<<>>}, complaint_doc : {NoDoc},
              summary : {ComplaintFields(<<"unknown">>, <<>>, "unknown")},
              raised : {""}, issued : {{}}, failed : {{}},
              html_called : {FALSE}]
  /\ comments = <<>>
  /\ last = NoRun
  /\ counted = EmptyBag
  /\ base_news_seen = {}
  /\ base_cases_seen = {}
  /\ agg = Idle
  /\ flt = Idle
  /\ cls = Idle
  /\ scr = Idle
  /\ env = Idle
  /\ nws = Idle
  /\ gh = Idle

ResOthers == <<comments, last, counted, base_news_seen, base_cases_seen,
               agg, flt, cls, scr, env, nws, gh>>

\* data = _get(url, ...) on the state r of the chain: g is what _get gave.
\* A request that ends in an exception (transport, timeout, r.json()) or in
\* a status >= 400.
Failed(r) == r.exc \/ r.status >= 400 \/ r.body = Unparseable

\* The requests that a step issues, each named by its call site and address,
\* and those of them that fail.
Requested(r, requests) ==
  [r EXCEPT !.issued = requests,
            !.failed = @ \cup {q \in requests : Failed(r.api[q[2]])}]

\* The requests of _extract_first_pdf_from_docket_html: the docket from the
\* API, then its page when the API gave an address.
HtmlRequests(api) ==
  IF Truthy(_get(api[DOCKET_URL]).data)
     /\ _get(api[DOCKET_URL]).data.absolute_url # <<>>
  THEN {<<"docket_meta", DOCKET_URL>>, <<"docket_html", DocketPage>>}
  ELSE {<<"docket_meta", DOCKET_URL>>}

\* The loop that asks again for the address that gave no data.
Readvanced(r) ==
  IF ~Truthy(r.data)
  THEN [r EXCEPT !.phase = "while"]
  ELSE [r EXCEPT !.phase = "while",
                 !.recap_docs = Take(@ \o r.data.results, MaxDocs),
                 !.url = r.data.next]

Fetched(r, g) ==
  IF g.raised # ""
  THEN [r EXCEPT !.phase = "raised", !.raised = g.raised]
  ELSE [r EXCEPT !.phase = "fetched", !.data = g.data]

\* if not data: break; recap_docs.extend(results); url = data.get("next")
Advanced(r) ==
  IF ~Truthy(r.data)
  THEN [r EXCEPT !.phase = "select"]
  ELSE [r EXCEPT !.phase = "while",
                 !.recap_docs = Take(@ \o r.data.results, MaxDocs),
                 !.url = r.data.next]

\* while url: data = _get(url, ...)
ResFetch ==
  /\ res.phase = "while"
  /\ res.url # ""
  /\ res' = Fetched(Requested(res, {<<"recap_docs", res.url>>}),
                    _get(res.api[res.url]))
  /\ UNCHANGED ResOthers

ResAdvance ==
  /\ res.phase = "fetched"
  /\ res' = Advanced(Requested(res, {}))
  /\ UNCHANGED ResOthers

\* The loop ends with no next address.
ResLoopEnd ==
  /\ res.phase = "while"
  /\ res.url = ""
  /\ res' = [res EXCEPT !.phase = "select", !.issued = {}]
  /\ UNCHANGED ResOthers

\* The choice of the complaint document and its fields.
ResSelect ==
  LET Chosen(d) ==
        res' = [res EXCEPT !.phase = "fallback", !.complaint_doc = d,
                           !.summary = FromRecapDoc(d), !.issued = {}]
  IN /\ res.phase = "select"
     /\ Chosen(FirstComplaint(res.recap_docs))
     /\ UNCHANGED ResOthers

\* The HTML fallback when there is no link, and the return of the summary.
ResFallback ==
  /\ res.phase = "fallback"
  /\ IF res.summary.complaint_link = <<>>
     THEN res' = [Requested(res, HtmlRequests(res.api)) EXCEPT
                    !.phase = "done",
                    !.html_called = TRUE,
                    !.summary = WithFallback(@,
                                  _extract_first_pdf_from_docket_html(res.api))]
     ELSE res' = [res EXCEPT !.phase = "done", !.issued = {}]
  /\ UNCHANGED ResOthers

ResNext == ResFetch \/ ResAdvance \/ ResLoopEnd \/ ResSelect \/ ResFallback

ResSpec == ResInit /\ [][ResNext]_vars

\* The calls follow one another in one thread and every request has a
\* timeout, so a step that can be taken is taken.
ResFairSpec == ResInit /\ [][ResNext]_vars /\ WF_vars(ResNext)

\* The state of the chain without the local variable data, which nothing
\* reads after the test of the loop.
Observed(r) == [r EXCEPT !.data = NoData]

\* One turn of the loop when the request of the address gets response x.
TurnWith(x) == Observed(Advanced(Fetched(res, _get(x))))

\* The fallback when the request of the docket gets response x.
FallbackWith(x) ==
  _extract_first_pdf_from_docket_html([res.api EXCEPT ![DOCKET_URL] = x])

FailedPages == {TransportError, Status(404)}

\* C11: whatever the requests of the chain give (a transport exception, 401
\* or 403, another status >= 400, a body that does not parse, a page that is
\* not 200), the chain does not raise; a failed request gives the loop no
\* data; when the RECAP request and the fallback both fail the summary has
\* no complaint link; and a 401 or a 403 leaves the caller where a response
\* with no data leaves it.
TheoremC11 ==
  /\ res.phase # "raised"
  /\ (res.phase = "fetched" /\ res.api[res.url] \in FailedResponses)
       => ~Truthy(res.data)
  /\ ( /\ res.phase = "done"
       /\ res.api[RECAP_DOCS_URL] \in FailedResponses
       /\ \/ res.api[DOCKET_URL] \in FailedResponses
          \/ res.api[DocketPage] \in FailedPages )
       => res.summary = ComplaintFields(<<"unknown">>, <<>>, "unknown")
  /\ (res.phase = "while" /\ res.url # "")
       => /\ TurnWith(Status(401)) = TurnWith(Ok(EmptyObject))
          /\ TurnWith(Status(403)) = TurnWith(Ok(EmptyObject))
          /\ TurnWith(Status(401)) = TurnWith(Status(500))
  /\ res.phase = "fallback"
       => /\ FallbackWith(Status(401)) = FallbackWith(Ok(EmptyObject))
          /\ FallbackWith(Status(403)) = FallbackWith(Ok(EmptyObject))

WitnessC11 ==
  /\ res.phase = "done"
  /\ res.api[RECAP_DOCS_URL] = Status(401)
  /\ res.api[DOCKET_URL] = Ok(DocketMeta(<<"/", DocketPage>>))
  /\ res.api[DocketPage] = TransportError
  /\ res.summary.complaint_link = <<>>

\* C12: the loop over the pages of the RECAP list ends, whatever the API
\* answers: the chain leaves the loop in every behaviour.
CounterexampleC12 == <>(res.phase \notin {"while", "fetched"})

\* The matches of the complaint keywords in a list, by position.
ComplaintPositions(docs) ==
  {i \in 1..Len(docs) : IsComplaint(lower(strip(docs[i].description)))}

\* The match with the latest filing date, the first of them in the order
\* of the list.
LatestComplaint(docs) ==
  LET Best(idx) ==
        CHOOSE i \in idx :
          \A j \in idx :
            \/ docs[j].date_filed.day < docs[i].date_filed.day
            \/ docs[j].date_filed.day = docs[i].date_filed.day /\ i <= j
  IN docs[Best(ComplaintPositions(docs))]

\* C13: when several fetched documents match the complaint keywords, the
\* chosen complaint is the match with the latest filing date, and among
\* matches of one date the first in the order of the list.
CounterexampleC13 ==
  (res.phase \in {"fallback", "done"} /\ ComplaintPositions(res.recap_docs) # {})
    => res.complaint_doc = LatestComplaint(res.recap_docs)

\* ------------------------------------------------------------------------
\* THE RISK SCORES (render.py): calls of calculate_news_risk_score and of
\* calculate_case_risk_score on texts over a pool of words.
\* ------------------------------------------------------------------------

\* A text has at most MaxTitle words in its first part and MaxReason in its
\* second; a function is called at most MaxCalls times on one input.
MaxTitle == 2
MaxReason == 3
MaxCalls == 2

TitlePool == {"Scrape", "crawl", "Training", "Class", "court"}
ReasonPool == {"Action", "paid", "Copyright", "820", "model", "representative"}
Natures == {<<>>, <<"820", SP, "Copyright">>, <<"440", SP, "Civil">>}

\* The inputs: (title, reason) of an article, or (extracted_ai_snippet,
\* extracted_causes, nature_of_suit) of a case.
ScrInputs ==
  [fn : {"news"}, a : SeqsUpTo(TitlePool, MaxTitle),
   b : SeqsUpTo(ReasonPool, MaxReason), nature : {<<>>}]
    \cup [fn : {"case"}, a : SeqsUpTo(TitlePool, MaxTitle),
          b : SeqsUpTo(ReasonPool, MaxReason), nature : Natures]

ScrInit ==
  /\ scr \in [phase : {"input"}, input : ScrInputs, scores : {<<>>}]
  /\ comments = <<>>
  /\ last = NoRun
  /\ counted = EmptyBag
  /\ base_news_seen = {}
  /\ base_cases_seen = {}
  /\ agg = Idle
  /\ flt = Idle
  /\ cls = Idle
  /\ res = Idle
  /\ env = Idle
  /\ nws = Idle
  /\ gh = Idle

ScrOthers == <<comments, last, counted, base_news_seen, base_cases_seen,
               agg, flt, cls, res, env, nws, gh>>

ScoreNews ==
  /\ scr.phase = "input"
  /\ scr.input.fn = "news"
  /\ Len(scr.scores) < MaxCalls
  /\ scr' = [scr EXCEPT !.scores =
               Append(@, calculate_news_risk_score(scr.input.a, scr.input.b))]
  /\ UNCHANGED ScrOthers

ScoreCase ==
  /\ scr.phase = "input"
  /\ scr.input.fn = "case"
  /\ Len(scr.scores) < MaxCalls
  /\ scr' = [scr EXCEPT !.scores =
               Append(@, calculate_case_risk_score(scr.input.a, scr.input.b,
                                                   scr.input.nature))]
  /\ UNCHANGED ScrOthers

ScrNext == ScoreNews \/ ScoreCase

ScrSpec == ScrInit /\ [][ScrNext]_vars

\* The text that the rules of a call read.
ScoredText == lower(scr.input.a \o <<SP>> \o scr.input.b)

\* The rules with a keyword in the text of the call; the rule of copyright
\* also reads the statutory code 820: in the text of an article, in the
\* nature of suit of a case.
GroupsPresent ==
  {g \in {"collect", "train", "commercial", "copyright", "class"} :
     CASE g = "collect" -> \E k \in KwCollect : Contains(ScoredText, k)
       [] g = "train" -> \E k \in KwTrain : Contains(ScoredText, k)
       [] g = "commercial" -> \E k \in KwCommercial : Contains(ScoredText, k)
       [] g = "copyright" ->
            \/ \E k \in KwCopyright : Contains(ScoredText, k)
            \/ IF scr.input.fn = "news"
               THEN Contains(ScoredText, <<"820">>)
               ELSE Contains(scr.input.nature, <<"820">>)
       [] OTHER -> \E k \in KwClass : Contains(ScoredText, k)}

GroupWeight(g) ==
  CASE g = "collect" -> 30
    [] g = "train" -> 30
    [] g = "commercial" -> 15
    [] g = "copyright" -> 15
    [] OTHER -> 10

RECURSIVE WeightSum(_)
WeightSum(G) ==
  IF G = {} THEN 0
  ELSE LET g == CHOOSE x \in G : TRUE
       IN GroupWeight(g) + WeightSum(G \ {g})

\* C14: each risk score is an integer of 0..100, the smaller of 100 and the
\* sum of the weights 30, 30, 15, 15, 10 of the rules that have a keyword
\* in the input, each rule counted once; two calls on one input give one
\* score.
TheoremC14 ==
  \A i \in 1..Len(scr.scores) :
    /\ scr.scores[i] \in 0..100
    /\ scr.scores[i] = Min(100, WeightSum(GroupsPresent))
    /\ scr.scores[i] = scr.scores[1]

\* A call on an article with two keywords of one rule and the words of
\* "class action" on both sides of the blank between title and reason.
WitnessC14 ==
  /\ Len(scr.scores) = MaxCalls
  /\ scr.input.fn = "news"
  /\ scr.input.a = <<"Scrape", "Class">>
  /\ scr.input.b = <<"Action", "model", "model">>
  /\ scr.scores[1] = 70

\* ------------------------------------------------------------------------
\* THE START OF A RUN (run.py main): the environment values, the check of
\* the required ones, and the network calls of the run in their order.
\* ------------------------------------------------------------------------

RequiredNames == {"GITHUB_OWNER", "GITHUB_REPO", "GITHUB_TOKEN",
                  "SLACK_WEBHOOK_URL"}

\* os.environ.get(name): None for an absent name, else the text.
EnvValues == {"None", "", "set"}

\* LOOKBACK_DAYS: absent (then "3"), a number, or a text int() rejects.
LookbackTexts == {"None", "2", "two"}

\* all([owner, repo, gh_token]): the check without the chat address.
all_but_slack(values) ==
  \A k \in RequiredNames \ {"SLACK_WEBHOOK_URL"} : values[k] \notin {"None", ""}

\* all([owner, repo, gh_token, slack_webhook])
all_required(values) == \A k \in RequiredNames : values[k] \notin {"None", ""}

\* The network calls of main, in the order of the code.
NetworkCalls == <<"search_recent_documents", "fetch_news",
                  "find_or_create_issue", "create_comment", "post_to_slack">>

EnvInit ==
  /\ env \in [phase : {"start"}, values : [RequiredNames -> EnvValues],
              lookback : LookbackTexts, raised : {""}, calls : {<<>>}]
  /\ comments = <<>>
  /\ last = NoRun
  /\ counted = EmptyBag
  /\ base_news_seen = {}
  /\ base_cases_seen = {}
  /\ agg = Idle
  /\ flt = Idle
  /\ cls = Idle
  /\ res = Idle
  /\ scr = Idle
  /\ nws = Idle
  /\ gh = Idle

EnvOthers == <<comments, last, counted, base_news_seen, base_cases_seen,
               agg, flt, cls, res, scr, nws, gh>>

\* if not all([...]): raise ValueError
CheckEnv ==
  /\ env.phase = "start"
  /\ IF all_required(env.values)
     THEN env' = [env EXCEPT !.phase = "checked"]
     ELSE env' = [env EXCEPT !.phase = "raised", !.raised = "ValueError"]
  /\ UNCHANGED EnvOthers

\* lookback_days = int(os.environ.get("LOOKBACK_DAYS", "3")), the titles
\* and the label.
Configure ==
  /\ env.phase = "checked"
  /\ IF env.lookback = "two"
     THEN env' = [env EXCEPT !.phase = "raised", !.raised = "ValueError"]
     ELSE env' = [env EXCEPT !.phase = "running"]
  /\ UNCHANGED EnvOthers

\* The next network call of the run.
Call ==
  /\ env.phase = "running"
  /\ Len(env.calls) < Len(NetworkCalls)
  /\ env' = [env EXCEPT !.calls = Append(@, NetworkCalls[Len(@) + 1])]
  /\ UNCHANGED EnvOthers

EnvNext == CheckEnv \/ Configure \/ Call

EnvSpec == EnvInit /\ [][EnvNext]_vars

MissingRequired == \E k \in RequiredNames : env.values[k] \in {"None", ""}

\* C15: when a required environment value is absent or empty, main raises
\* with no network call made: the run is at its start or has raised, and
\* its list of calls is empty.
TheoremC15 ==
  MissingRequired =>
    /\ env.calls = <<>>
    /\ env.phase \in {"start", "raised"}
    /\ env.phase = "raised" => env.raised = "ValueError"

WitnessC15 ==
  /\ env.phase = "raised"
  /\ env.values["SLACK_WEBHOOK_URL"] = ""
  /\ \A k \in RequiredNames \ {"SLACK_WEBHOOK_URL"} : env.values[k] = "set"
  /\ env.calls = <<>>

\* C16: the final document collection of a run holds at most one document
\* per (docket_id, doc_number, date_filed, document_url), whatever the
\* builder from the hits and the builder from the docket identifiers gave.
TheoremC16 ==
  flt.phase = "done" =>
    \A i, j \in 1..Len(flt.final) :
      ( /\ flt.final[i].docket_id = flt.final[j].docket_id
        /\ flt.final[i].doc_number = flt.final[j].doc_number
        /\ flt.final[i].date_filed = flt.final[j].date_filed
        /\ flt.final[i].document_url = flt.final[j].document_url ) => i = j

\* Both builders gave the same document, and the final collection holds it.
WitnessC16 ==
  /\ flt.phase = "done"
  /\ \E i \in 1..Len(flt.cl_docs) : \E j \in 1..Len(flt.extra_docs) :
       flt.cl_docs[i] = flt.extra_docs[j]
  /\ Len(flt.final) < Len(flt.cl_docs) + Len(flt.extra_docs)
  /\ Len(flt.final) >= 1

\* The rows of the rendered block that show the document d: its date and
\* its link.
RowsOf(d) ==
  {k \in 1..Len(flt.docs_block) :
     /\ Contains(flt.docs_block[k], _esc(DateText(AsRendered(d).date_filed)))
     /\ Contains(flt.docs_block[k], _mdlink(<<"PDF">>, d.document_url))}

\* C17: the rendered report shows no two document rows of one docket and
\* one filing date, unless the numbers of the two documents differ.
CounterexampleC17 ==
  flt.phase = "rendered" =>
    \A i, j \in 1..Len(flt.final) :
      ( /\ i # j
        /\ flt.final[i].docket_id = flt.final[j].docket_id
        /\ flt.final[i].date_filed = flt.final[j].date_filed
        /\ flt.final[i].doc_number = flt.final[j].doc_number )
        => RowsOf(flt.final[i]) = {} \/ RowsOf(flt.final[j]) = {}

\* ------------------------------------------------------------------------
\* THE MERGE OF THE NEWS (extract.py build_lawsuits_from_news): the list
\* results of the accepted items, merged into one Lawsuit per key.
\* ------------------------------------------------------------------------

\* sorted(list(S)) for a set of addresses; an address is its rank in the
\* order of strings, a date the number of its day.
RECURSIVE sorted_list(_)
sorted_list(S) ==
  IF S = {} THEN <<>> ELSE <<Least(S)>> \o sorted_list(S \ {Least(S)})

\* key = (r.case_number, r.case_title, r.article_title)
MergeKey(r) == <<r.case_number, r.case_title, r.article_title>>

\* A merge that keeps the first item of a key as it came.
RECURSIVE merge_keep_first(_)
merge_keep_first(results) ==
  IF results = <<>> THEN <<>>
  ELSE LET Rest(m) ==
             IF \E i \in 1..Len(m) : MergeKey(m[i]) = MergeKey(results[Len(results)])
             THEN m
             ELSE Append(m, results[Len(results)])
       IN Rest(merge_keep_first(SubSeq(results, 1, Len(results) - 1)))

\* One turn of "for r in results": merged is the dict so far, in the order
\* of its keys.
MergedWith(merged, r) ==
  LET At(i) ==
        [merged EXCEPT
           ![i].article_urls =
              sorted_list(Range(merged[i].article_urls) \cup Range(r.article_urls)),
           ![i].update_or_filed_date =
              IF r.update_or_filed_date > merged[i].update_or_filed_date
              THEN r.update_or_filed_date ELSE @]
      Found(hit) == IF hit = {} THEN Append(merged, r) ELSE At(Least(hit))
  IN Found({i \in 1..Len(merged) : MergeKey(merged[i]) = MergeKey(r)})

\* Lines 203-215: the loop over results and list(merged.values()).
RECURSIVE merge_results(_)
merge_results(results) ==
  IF results = <<>> THEN <<>>
  ELSE MergedWith(merge_results(SubSeq(results, 1, Len(results) - 1)),
                  results[Len(results)])

\* A call gets at most MaxItems accepted items.
MaxItems == 3

\* The accepted items: two articles on one case, dated day 1 or 2, each with
\* the sorted addresses of the item and of the page it led to.
NewsResults ==
  [update_or_filed_date : {1, 2}, case_title : {<<"A v. B">>},
   article_title : {<<"t1">>, <<"t2">>}, case_number : {<<"1:25-cv-00001">>},
   reason : {<<"reason">>}, article_urls : {<<1>>, <<1, 2>>, <<3>>}]

NwsInit ==
  /\ nws \in [phase : {"results"}, results : SeqsUpTo(NewsResults, MaxItems),
              out : {<<>>}]
  /\ comments = <<>>
  /\ last = NoRun
  /\ counted = EmptyBag
  /\ base_news_seen = {}
  /\ base_cases_seen = {}
  /\ agg = Idle
  /\ flt = Idle
  /\ cls = Idle
  /\ res = Idle
  /\ scr = Idle
  /\ env = Idle
  /\ gh = Idle

BuildLawsuits ==
  /\ nws.phase = "results"
  /\ nws' = [nws EXCEPT !.phase = "done", !.out = merge_results(nws.results)]
  /\ UNCHANGED <<comments, last, counted, base_news_seen, base_cases_seen,
                 agg, flt, cls, res, scr, env, gh>>

NwsNext == BuildLawsuits

NwsSpec == NwsInit /\ [][NwsNext]_vars

\* The items of the call with the key of the lawsuit l.
ItemsOf(l) ==
  {i \in 1..Len(nws.results) : MergeKey(nws.results[i]) = MergeKey(l)}

Reversed(s) == [i \in 1..Len(s) |-> s[Len(s) + 1 - i]]

\* What the claim reads of a returned list: key, addresses and date.
Merged(list) ==
  {<<MergeKey(list[i]), list[i].article_urls, list[i].update_or_filed_date>> :
     i \in 1..Len(list)}

\* C18: the list returned for the accepted items holds exactly one Lawsuit
\* per key (case_number, case_title, article_title) among them; its
\* article_urls are the addresses of all items of the key, each once; its
\* date is the latest of their dates; and the items in the opposite order
\* give the same keys, addresses and dates.
TheoremC18 ==
  nws.phase = "done" =>
    /\ \A i \in 1..Len(nws.results) :
         \E j \in 1..Len(nws.out) : MergeKey(nws.out[j]) = MergeKey(nws.results[i])
    /\ \A j, k \in 1..Len(nws.out) :
         MergeKey(nws.out[j]) = MergeKey(nws.out[k]) => j = k
    /\ \A j \in 1..Len(nws.out) :
         /\ ItemsOf(nws.out[j]) # {}
         /\ Range(nws.out[j].article_urls) =
              UNION {Range(nws.results[i].article_urls) : i \in ItemsOf(nws.out[j])}
         /\ \A a, b \in 1..Len(nws.out[j].article_urls) :
              nws.out[j].article_urls[a] = nws.out[j].article_urls[b] => a = b
         /\ \E i \in ItemsOf(nws.out[j]) :
              nws.out[j].update_or_filed_date = nws.results[i].update_or_filed_date
         /\ \A i \in ItemsOf(nws.out[j]) :
              nws.results[i].update_or_filed_date <= nws.out[j].update_or_filed_date
    /\ Merged(merge_results(Reversed(nws.results))) = Merged(nws.out)

\* Three items, two of one key with different addresses and dates, the
\* later date first.
WitnessC18 ==
  /\ nws.phase = "done"
  /\ Len(nws.results) = 3
  /\ Len(nws.out) = 2
  /\ MergeKey(nws.results[1]) = MergeKey(nws.results[3])
  /\ nws.results[1].update_or_filed_date = 2
  /\ nws.results[3].update_or_filed_date = 1
  /\ nws.results[1].article_urls = <<3>>
  /\ nws.results[3].article_urls = <<1, 2>>
  /\ nws.out[1].article_urls = <<1, 2, 3>>
  /\ nws.out[1].update_or_filed_date = 2

\* ------------------------------------------------------------------------
\* The rewritten tables of the runs on the ticket.
\* ------------------------------------------------------------------------

\* The tables of the text the latest run produced.
OutNews == parse_table(extract_section(last.out, NewsTitle))

OutCases == parse_table(extract_section(last.out, CasesTitle))

\* Row k of the rewritten table is row k of the current one: the identity
\* cell is the same, and when the row is a duplicate every other cell but
\* the sequence number is the placeholder.
RowKept(cur, out, k, idx, no_idx, dup) ==
  /\ k <= Len(out.rows)
  /\ idx <= Len(out.rows[k])
  /\ out.rows[k][idx] = cur.rows[k][idx]
  /\ dup => \A c \in 1..Len(out.rows[k]) :
              c \notin {idx, no_idx} => out.rows[k][c] = <<"skip">>

\* C19: a run that deduplicates still emits every current row whose key the
\* history holds: in the rewritten table the row has its identity cell, the
\* placeholder in every other column but the sequence number, and the place
\* among the rows that it has in the current report.
CounterexampleC19 ==
  Deduplicated =>
    /\ CurrentTitleIdx # 0 =>
         \A k \in 1..Len(CurrentNews.rows) :
           RowKept(CurrentNews, OutNews, k, CurrentTitleIdx,
                   Index(CurrentNews.headers, COL_NO),
                   k \notin FreshNewsRows)
    /\ CurrentDocketIdx # 0 =>
         \A k \in 1..Len(CurrentCases.rows) :
           RowKept(CurrentCases, OutCases, k, CurrentDocketIdx,
                   Index(CurrentCases.headers, COL_NO),
                   k \notin FreshCasesRows)

\* The rows of the News table and of the Cases table of the current report
\* (a table of the section is one whose header has the identity column)
\* whose key the history holds.
DupNewsRows ==
  IF CurrentTitleIdx = 0 THEN {}
  ELSE (1..Len(CurrentNews.rows)) \ FreshNewsRows

DupCasesRows ==
  IF CurrentDocketIdx = 0 THEN {}
  ELSE (1..Len(CurrentCases.rows)) \ FreshCasesRows

\* The summary block the claim describes for the latest run.
ClaimedSummary ==
  summary_header(Cardinality(HistoryArticleKeys), Cardinality(DupNewsRows),
                 Cardinality(FreshNewsRows),
                 Cardinality(HistoryDocketKeys), Cardinality(DupCasesRows),
                 Cardinality(FreshCasesRows))

\* C20: on a ticket with comments the text apply_deduplication returns
\* starts with the summary whose Baseline is the number of keys of the
\* history, whose Dup is the number of current rows of the section with a
\* key of the history and whose New is the number of the others; Dup is 0
\* when the section has no rows of its table.
CounterexampleC20 ==
  (Deduplicated /\ last.op = "dedup") => StartsWith(last.out, ClaimedSummary)

\* ------------------------------------------------------------------------
\* REPORTS WITHOUT A SECTION: runs of apply_deduplication on a ticket whose
\* reports lack the News section, the Cases section, or both.
\* ------------------------------------------------------------------------

\* A text with a table of articles and of dockets under another heading.
NoSectionReport ==
  Join(<< <<H2, "Other">>,
          RowLine(<< COL_NO, COL_TITLE, COL_DOCKET, COL_CASE >>),
          _md_sep(4),
          RowLine(<< <<"1">>, _mdlink(<<"x">>, <<HTTP, "u1">>),
                     K1.docket_number, <<"A v. B">> >>) >>, <<NL>>)

NewsOnlyReport ==
  Join(<< NewsTitle,
          RowLine(<< COL_NO, COL_TITLE >>),
          _md_sep(2),
          RowLine(<< <<"1">>, _mdlink(<<"x">>, <<HTTP, "u1">>) >>),
          RowLine(<< <<"2">>, _mdlink(<<"y">>, <<HTTP, "u2">>) >>) >>, <<NL>>)

CasesOnlyReport ==
  Join(<< <<"note">>,
          CasesTitle,
          RowLine(<< COL_NO, COL_CASE, COL_DOCKET >>),
          _md_sep(3),
          RowLine(<< <<"1">>, <<"A v. B">>, K1.docket_number >>),
          RowLine(<< <<"2">>, <<"C v. D">>, K2.docket_number >>) >>, <<NL>>)

BothSectionsReport ==
  Join(<< NewsTitle,
          RowLine(<< COL_NO, COL_TITLE >>),
          _md_sep(2),
          RowLine(<< <<"1">>, _mdlink(<<"y">>, <<HTTP, "u2">>) >>),
          RowLine(<< <<"2">>, _mdlink(<<"z">>, <<HTTP, "u3">>) >>),
          <<>>,
          CasesTitle,
          RowLine(<< COL_NO, COL_CASE, COL_DOCKET >>),
          _md_sep(3),
          RowLine(<< <<"1">>, <<"C v. D">>, K2.docket_number >>),
          RowLine(<< <<"2">>, <<"E v. F">>, K3.docket_number >>) >>, <<NL>>)

SectionReports == {NoSectionReport, NewsOnlyReport, CasesOnlyReport,
                   BothSectionsReport}

\* A comment written by hand on the ticket, with no section.
PlainNote == <<"manual", SP, "note">>

SecNext ==
  \/ \E md \in SectionReports : RunWithDedup(md)
  \/ PostComment(PlainNote)

SecSpec == Init /\ [][SecNext]_vars

\* No line of the text begins, once stripped, with the title.
Absent(text, section_title) ==
  \A i \in 1..Len(split(text, NL)) :
    ~StartsWith(strip(split(text, NL)[i]), section_title)

\* The comments the latest run read.
HistoryOfLast == 1..last.history_len

\* C21: a section that a comment of the history or the current report lacks
\* is an empty section: apply_deduplication returns without raising, the
\* comment gives no key of that section to the baseline, and the summary
\* counts 0 duplicates and 0 new rows for a section the report lacks.
TheoremC21 ==
  (last.op = "dedup" /\ ~last.first_run) =>
    /\ ~last.raised
    /\ last.base_article_set =
         UNION {ArticleKeysOf(comments[i]) :
                  i \in {j \in HistoryOfLast : ~Absent(comments[j], NewsTitle)}}
    /\ last.base_docket_set =
         UNION {DocketKeysOf(comments[i]) :
                  i \in {j \in HistoryOfLast : ~Absent(comments[j], CasesTitle)}}
    /\ Absent(last.md, NewsTitle) =>
         /\ last.total_article_count = 0
         /\ last.new_article_count = 0
    /\ Absent(last.md, CasesTitle) =>
         /\ last.total_docket_count = 0
         /\ last.new_docket_count = 0
    /\ (Absent(last.md, NewsTitle) /\ Absent(last.md, CasesTitle)) =>
         last.out = summary_header(Cardinality(last.base_article_set), 0, 0,
                                   Cardinality(last.base_docket_set), 0, 0)
                    \o last.md

\* A run on the report without sections, on a ticket whose history holds a
\* comment without the News section and one without the Cases section, and
\* keys of both kinds.
WitnessC21 ==
  /\ last.op = "dedup"
  /\ ~last.first_run
  /\ last.md = NoSectionReport
  /\ \E i \in HistoryOfLast : Absent(comments[i], NewsTitle)
  /\ \E i \in HistoryOfLast : Absent(comments[i], CasesTitle)
  /\ last.base_article_set # {}
  /\ last.base_docket_set # {}

\* ------------------------------------------------------------------------
\* The requests of build_case_summary_from_docket_id, call site by call site.
\* ------------------------------------------------------------------------

\* The latest step issued a request that failed.
JustFailed(site) == \E q \in res.issued \cap res.failed : q[1] = site

\* C22: no call site issues again a request that failed, and a call site
\* whose request failed goes on with an empty result: the loop over the
\* RECAP pages holds no data and ends with the documents it had, and the
\* HTML fallback leaves the fields of the summary as they were.
TheoremC22 ==
  [][/\ res'.issued \cap res.failed = {}
     /\ (res.phase = "fetched" /\ JustFailed("recap_docs")) =>
          /\ res.data = NoData
          /\ res'.phase = "select"
          /\ res'.recap_docs = res.recap_docs
     /\ (\E q \in res'.issued \cap res'.failed : q[1] = "docket_meta") =>
          /\ res'.issued = {<<"docket_meta", DOCKET_URL>>}
          /\ res'.summary = res.summary
     /\ (\E q \in res'.issued \cap res'.failed : q[1] = "docket_html") =>
          res'.summary = res.summary]_vars

\* A finished call in which the request of the second RECAP page and the
\* request of the docket's page both failed, after a first page of documents.
WitnessC22 ==
  /\ res.phase = "done"
  /\ <<"recap_docs", RecapPage2>> \in res.failed
  /\ <<"docket_html", DocketPage>> \in res.failed
  /\ res.recap_docs # <<>>

\* The API tier produced a link: a document matched the keywords and has a
\* local file path or a public address.
ApiLink ==
  /\ res.complaint_doc # NoDoc
  /\ \/ get(res.complaint_doc, "filepath_local") # <<>>
     \/ get(res.complaint_doc, "absolute_url") # <<>>

\* C23: the API tier comes first and the HTML fallback is requested exactly
\* when the API tier produced no link; with a link from the API tier no HTML
\* request is made and the link and the document number are those of the
\* matched document.
TheoremC23 ==
  /\ res.phase \in {"while", "fetched", "select", "fallback"} =>
       ~res.html_called
  /\ res.phase \in {"fallback", "done"} =>
       res.complaint_doc = FirstComplaint(res.recap_docs)
  /\ res.phase = "done" =>
       /\ res.html_called <=> ~ApiLink
       /\ ApiLink =>
            /\ res.issued = {}
            /\ res.failed \subseteq {"recap_docs"} \X {RECAP_DOCS_URL, RecapPage2}
            /\ res.summary.complaint_link # <<>>
            /\ res.summary.complaint_link \in
                 {_abs_url(get(res.complaint_doc, "filepath_local")),
                  _abs_url(get(res.complaint_doc, "absolute_url"))}
            /\ res.summary.complaint_doc_no =
                 OrElse(strip(res.complaint_doc.document_number), <<"1">>)
            /\ res.summary.complaint_type # "Complaint (HTML Fallback)"

\* A finished call whose matched document has only a local file path: the
\* page of the docket, which links a PDF, was not requested.
WitnessC23 ==
  /\ res.phase = "done"
  /\ res.complaint_doc = ResDocL
  /\ ~res.html_called
  /\ res.api[DocketPage] = HtmlPage("absolute")
  /\ res.api[DOCKET_URL] = Ok(DocketMeta(<<"/", DocketPage>>))

\* ------------------------------------------------------------------------
\* The HTML fallback of build_complaint_documents_from_hits.
\* ------------------------------------------------------------------------

\* The dockets of the hits, and those of them for which cl_docs holds a
\* document taken from the page of the docket.
HitDockets ==
  {_pick_docket_id(flt.hits[k]) : k \in 1..Len(flt.hits)} \ {0}

FallbackDockets ==
  {flt.cl_docs[k].docket_id :
     k \in {j \in 1..Len(flt.cl_docs) :
              flt.cl_docs[j].doc_type = <<"Complaint (HTML Fallback)">>}}

\* The RECAP list of the docket holds no complaint.
NoComplaintListed(did) ==
  \A i \in 1..Len(flt.world.docs[did]) :
    ~IsComplaint(lower(strip(flt.world.docs[did][i].description)))

\* C24: every docket of the hits whose RECAP list holds no complaint, be the
\* list empty or not, gets the HTML fallback, so the PDF that the page of
\* the docket links is among the documents built.
CounterexampleC24 ==
  flt.phase = "docs" =>
    \A did \in HitDockets :
      (NoComplaintListed(did) /\ flt.world.html[did]) =>
        did \in FallbackDockets

\* ------------------------------------------------------------------------
\* The sequence column of the rewritten tables.
\* ------------------------------------------------------------------------

\* The table has no "No." column, or its rows carry 1, 2, ..., n in order.
Numbered(t) ==
  Index(t.headers, COL_NO) # 0 =>
    \A k \in 1..Len(t.rows) : t.rows[k][Index(t.headers, COL_NO)] = Str(k)

\* C25: in the tables of News and of Cases that a deduplicating run emits,
\* a "No." column holds 1, 2, ..., n in the order of the emitted rows.
TheoremC25 ==
  Deduplicated => (Numbered(OutNews) /\ Numbered(OutCases))

\* A rewritten Cases table with a "No." column whose first row was not the
\* first row of the current report, which began with a duplicate.
WitnessC25 ==
  /\ Deduplicated
  /\ Index(OutCases.headers, COL_NO) # 0
  /\ Len(OutCases.rows) >= 1
  /\ CurrentDocketIdx # 0
  /\ 1 \notin FreshCasesRows
  /\ OutCases.rows[1][CurrentDocketIdx] # CurrentCases.rows[1][CurrentDocketIdx]

\* ------------------------------------------------------------------------
\* The parts of a report outside its two tables.
\* ------------------------------------------------------------------------

\* The text of the risk-scale block, which ends every rendered report.
RiskScaleText == Join(RiskScaleBlock, <<NL>>)

\* The text of a rendered report up to the heading of its News section.
BeforeNews(md) ==
  LET lines == split(md, NL)
      at == Least({i \in 1..Len(lines) : StartsWith(strip(lines[i]), NewsTitle)})
  IN Join(SubSeq(lines, 1, at), <<NL>>)

\* C26: a deduplicating run changes the table of News and the table of Cases
\* and puts the summary in front; what a rendered report holds outside the
\* two tables is in the output as it was: the text up to the News heading
\* and the risk-scale block.
CounterexampleC26 ==
  (Deduplicated /\ Contains(last.md, RiskScaleText)) =>
    /\ Contains(last.out, BeforeNews(last.md))
    /\ Contains(last.out, RiskScaleText)

\* ------------------------------------------------------------------------
\* The dockets of the hits before and after the deduplication of main.
\* ------------------------------------------------------------------------

DocketsOf(hits) == {_pick_docket_id(hits[i]) : i \in 1..Len(hits)} \ {0}

\* C27: the deduplication of the hits by address and case name loses no
\* docket: every docket identifier of a raw hit is the identifier of a hit
\* that remains.
CounterexampleC27 ==
  agg.phase # "start" => DocketsOf(agg.raw) \subseteq DocketsOf(agg.hits)

\* ------------------------------------------------------------------------
\* apply_deduplication of src/dedup.py against the deduplication of main.
\* ------------------------------------------------------------------------

\* What a deduplication reports: the three counts of each section and the
\* identities of the rows it takes as new, in row order.
Reported(v) ==
  [news |-> <<Cardinality(v.base_article_set),
              v.total_article_count - v.new_article_count,
              v.new_article_count>>,
   cases |-> <<Cardinality(v.base_docket_set),
               v.total_docket_count - v.new_docket_count,
               v.new_docket_count>>,
   new_news |-> v.news_keys,
   new_cases |-> v.case_keys]

\* Both deduplications end on the report and report the same.
SameReported(md, history) ==
  /\ ~dedup_locals(md, history).raised
  /\ Reported(dedup_locals(md, history)) =
       Reported(main_dedup_locals(md, history))

\* C28: on the report and the comments of every deduplicating run, the
\* function of src/dedup.py and the deduplication of main report the same
\* Baseline, Dup and New counts of both sections and the same new rows in
\* the same order.
CounterexampleC28 ==
  (last.op # "none" /\ ~last.first_run) =>
    SameReported(last.md, SubSeq(comments, 1, last.history_len))

(***************************************************************************)
(* src/github_issue.py: close_other_daily_issues (lines 42-63) and         *)
(* comment_and_close_issue (lines 65-71) on the issues of the repository.  *)
(***************************************************************************)

\* The issues of the repository in the model.
NumIssues == 3

Issue(title, label, state) ==
  [title |-> title, label |-> label, state |-> state, footers |-> 0]

base_title == <<"AI suit report">>
today_title == base_title \o <<" (", "2025-01-02", ")">>
OldTitle == base_title \o <<" (", "2025-01-01", ")">>
UnclosedTitle == base_title \o <<" (", "draft">>
OtherTitle == <<"Other report", " (", "2025-01-01", ")">>

IssueKinds ==
  {Issue(t, "monitor", "open") :
     t \in {today_title, OldTitle, UnclosedTitle, OtherTitle, base_title}}
    \cup {Issue(OldTitle, "other", "open"), Issue(OldTitle, "monitor", "closed")}

\* list_open_issues_by_label: the numbers of the open issues with the label.
list_open_issues_by_label(issues, label) ==
  SelectSeq([n \in 1..Len(issues) |-> n],
            LAMBDA n : issues[n].state = "open" /\ issues[n].label = label)

\* prefix = f"{base_title} ("
prefix == base_title \o <<" (">>

\* Every title of the form base_title (...), today's too.
is_daily_title(t) == StartsWith(t, prefix) /\ t # <<>> /\ t[Len(t)] = ")"

\* if t == today_title: continue; if t.startswith(prefix) and
\* t.endswith(")"): the issue is commented and closed.
is_other_daily(t) ==
  /\ t # today_title
  /\ StartsWith(t, prefix) /\ t # <<>> /\ t[Len(t)] = ")"

GhInit ==
  /\ gh \in [phase : {"start"}, before : [1..NumIssues -> IssueKinds],
             issues : {<<>>}, listed : {<<>>}, i : {1}, closed : {<<>>}]
  /\ comments = <<>>
  /\ last = NoRun
  /\ counted = EmptyBag
  /\ base_news_seen = {}
  /\ base_cases_seen = {}
  /\ agg = Idle
  /\ flt = Idle
  /\ cls = Idle
  /\ res = Idle
  /\ scr = Idle
  /\ env = Idle
  /\ nws = Idle

GhOthers == <<comments, last, counted, base_news_seen, base_cases_seen,
              agg, flt, cls, res, scr, env, nws>>

\* issues = list_open_issues_by_label(owner, repo, token, label)
GhList ==
  /\ gh.phase = "start"
  /\ gh' = [gh EXCEPT !.phase = "for", !.issues = gh.before,
                      !.listed = list_open_issues_by_label(gh.before, "monitor")]
  /\ UNCHANGED GhOthers

\* One turn of `for it in issues` up to the call of comment_and_close_issue.
GhTurn ==
  /\ gh.phase = "for"
  /\ gh.i <= Len(gh.listed)
  /\ gh' = IF is_other_daily(gh.issues[gh.listed[gh.i]].title)
           THEN [gh EXCEPT !.phase = "comment"]
           ELSE [gh EXCEPT !.i = @ + 1]
  /\ UNCHANGED GhOthers

\* comment_and_close_issue: the POST of the footer; raise_for_status raises
\* when the tracker refuses it.
GhComment ==
  /\ gh.phase = "comment"
  /\ \E ok \in BOOLEAN :
       gh' = IF ok
             THEN [gh EXCEPT !.phase = "close",
                             !.issues[gh.listed[gh.i]].footers = @ + 1]
             ELSE [gh EXCEPT !.phase = "raised"]
  /\ UNCHANGED GhOthers

\* close_issue: the PATCH of the state; then closed.append(num).
GhClose ==
  /\ gh.phase = "close"
  /\ \E ok \in BOOLEAN :
       gh' = IF ok
             THEN [gh EXCEPT !.phase = "for", !.i = @ + 1,
                             !.issues[gh.listed[gh.i]].state = "closed",
                             !.closed = Append(@, gh.listed[gh.i])]
             ELSE [gh EXCEPT !.phase = "raised"]
  /\ UNCHANGED GhOthers

\* return closed
GhReturn ==
  /\ gh.phase = "for"
  /\ gh.i > Len(gh.listed)
  /\ gh' = [gh EXCEPT !.phase = "done"]
  /\ UNCHANGED GhOthers

GhNext == GhList \/ GhTurn \/ GhComment \/ GhClose \/ GhReturn

GhSpec == GhInit /\ [][GhNext]_vars

\* The issues that the call closed so far.
ClosedByCall ==
  {n \in 1..Len(gh.issues) :
     gh.issues[n].state = "closed" /\ gh.before[n].state = "open"}

\* C29: the call closes no issue with today's title; an issue it closes was
\* open, has the label, and a title that starts with base_title and " ("
\* and ends with ")"; and the footer is on an issue before the issue is
\* closed, so an issue whose footer was refused stays open.
TheoremC29 ==
  gh.phase \notin {"start"} =>
    /\ \A n \in ClosedByCall :
         /\ gh.before[n].title # today_title
         /\ gh.before[n].label = "monitor"
         /\ StartsWith(gh.before[n].title, base_title \o <<" (">>)
         /\ gh.before[n].title[Len(gh.before[n].title)] = ")"
         /\ gh.issues[n].footers = 1
    /\ ClosedByCall = Range(gh.closed)
    /\ \A n \in 1..Len(gh.issues) :
         /\ gh.issues[n].title = gh.before[n].title
         /\ gh.issues[n].footers <= 1
         /\ gh.before[n].state = "closed" => gh.issues[n] = gh.before[n]
    /\ gh.phase = "close" => gh.issues[gh.listed[gh.i]].footers = 1
    /\ gh.phase \in {"comment", "raised"} =>
         gh.issues[gh.listed[gh.i]].state = "open"

\* A call that closed an older daily issue, left today's issue open, and
\* ended on a refused footer: the issue of that footer is open.
WitnessC29 ==
  /\ gh.phase = "raised"
  /\ gh.closed # <<>>
  /\ \E n \in 1..Len(gh.issues) :
       gh.issues[n].title = today_title /\ gh.issues[n].state = "open"
  /\ gh.issues[gh.listed[gh.i]].footers = 0
  /\ gh.issues[gh.listed[gh.i]].state = "open"

\* ------------------------------------------------------------------------
\* The first run on a ticket: no comments to compare with.
\* ------------------------------------------------------------------------

\* C30: with no comment on the ticket, the deduplication gives the report
\* back as it is: no summary in front, no row rewritten, and nothing
\* counted as new or as duplicate.
TheoremC30 ==
  (last.op # "none" /\ last.first_run) =>
    /\ last.out = last.md
    /\ ~last.raised
    /\ last.new_article_count = 0 /\ last.total_article_count = 0
    /\ last.new_docket_count = 0 /\ last.total_docket_count = 0
    /\ counted = EmptyBag
    /\ Len(comments) >= 1
    /\ last.op = "dedup" => comments[1] = last.md

\* apply_deduplication called with no comments on a report whose News and
\* Cases tables have rows.
WitnessC30 ==
  /\ last.op = "dedup"
  /\ last.first_run
  /\ Len(CurrentNews.rows) >= 2
  /\ Len(CurrentCases.rows) >= 1
  /\ comments[1] = last.md

====
